---------------------------- MODULE Spec2Model ----------------------------
(***************************************************************************)
(* A model of wneessen/iocrypter: NewEncrypter / NewEncrypterWithSettings  *)
(* (src/encrypter.go), DeriveKeys (src/iocryptor.go), NewDecrypter and     *)
(* readParameters (src/unnamed/part_001, lines 24-126) and hashReadWriter  *)
(* (src/decrypter_test.go, lines 160-191).                                 *)
(*                                                                         *)
(* Bytes are integers.  0..255 are ordinary byte values.  The output of    *)
(* HMAC-SHA512 is idealised: the tag of (key, data) is looked up in the    *)
(* table `macs` (a lazily sampled random function), and byte i of tag      *)
(* number id, xor-ed with mask x, is the integer MacByte(id, i, x) >= 256. *)
(* Two tags are equal exactly when key and data are equal.  Argon2id is    *)
(* idealised the same way: the derived key material is the record of the   *)
(* inputs of the derivation.                                               *)
(***************************************************************************)
EXTENDS Integers, Sequences, FiniteSets, TLC

\* ------------------------------------------------------------------------
\* Program constants (src/iocryptor.go, lines 16-58)
hmacSize == 64
hmacKeySize == 32
saltSize == 32
aesKeySize == 32
blockSize == 16
defaultArgon2Threads == 4
defaultArgon2Memory == 65536
defaultArgon2Time == 3
chunkSize == 4096
\* wa.SerializedSettingsLength: Memory(4) Time(4) Threads(1) SaltLength(4) KeyLength(4)
SerializedSettingsLength == 17

\* ------------------------------------------------------------------------
\* Bounds of the model
\* short plaintexts: every byte sequence over PlainBytes up to this length
MaxShort == 2
\* how many bytes from each end of the body and of the trailer a bit is flipped in
FlipSpan == 3
\* how many trailing bytes may be cut off one by one (beyond the fixed cuts)
MaxCut == 2
\* how many reads a consumer needs at most to drain a stream
MaxReads == 200
\* how many calls are made on a hashReadWriter on its own
MaxCalls == 5
\* how long the byte slices handed to DeserializeSettings are at most
MaxInput == 10

PlainBytes == {0, 255}
\* longer plaintexts, of the lengths at which the trailer and the chunk
\* boundaries fall: byte i of each is PatternByte(i)
LongLens ==
  {63, 64, chunkSize - 2 * hmacSize, chunkSize - hmacSize, chunkSize - hmacSize + 1,
   2 * (chunkSize - hmacSize)}
FlipBits == {0, 7}
\* buffer sizes the consumers of the two returned streams read with; a stream of
\* len bytes is read with those that need at most MaxReads reads to drain it
ReadSizes == {1, 64, chunkSize}

\* ------------------------------------------------------------------------
\* Helpers
Min(a, b) == IF a < b THEN a ELSE b

Take(s, n) == SubSeq(s, 1, Min(n, Len(s)))

Drop(s, n) == SubSeq(s, n + 1, Len(s))

RECURSIVE XorN(_, _, _)
XorN(a, b, n) ==
  IF n = 0 THEN 0
  ELSE (((a % 2) + (b % 2)) % 2) + 2 * XorN(a \div 2, b \div 2, n - 1)

\* the xor of two bytes, tabulated
XorTable == [a \in 0..255 |-> [b \in 0..255 |-> XorN(a, b, 8)]]

Xor8(a, b) == XorTable[a][b]

RECURSIVE Pow2(_)
Pow2(n) == IF n = 0 THEN 1 ELSE 2 * Pow2(n - 1)

\* the sum of a sequence, by halves
RECURSIVE SumSeq(_)
SumSeq(s) ==
  IF Len(s) = 0 THEN 0
  ELSE IF Len(s) = 1 THEN s[1]
  ELSE SumSeq(SubSeq(s, 1, Len(s) \div 2)) + SumSeq(SubSeq(s, Len(s) \div 2 + 1, Len(s)))

PatternByte(i) == (7 * i + 3) % 256

RECURSIVE SeqsUpTo(_, _)
SeqsUpTo(S, n) ==
  IF n = 0 THEN {<<>>}
  ELSE LET shorter == SeqsUpTo(S, n - 1)
       IN shorter \cup {Append(s, b) : s \in {t \in shorter : Len(t) = n - 1}, b \in S}

ReadSizesFor(len) == {n \in ReadSizes : n * MaxReads >= len}

Plaintexts ==
  SeqsUpTo(PlainBytes, MaxShort) \cup {[i \in 1..n |-> PatternByte(i)] : n \in LongLens}

\* ------------------------------------------------------------------------
\* Idealised tag bytes
MacByte(id, i, x) == 256 + (id * hmacSize + i) * 256 + x

IsMacByte(b) == b >= 256

\* a single bit of one byte inverted
FlipBit(b, bit) ==
  IF IsMacByte(b)
  THEN LET x == (b - 256) % 256
       IN (b - x) + Xor8(x, Pow2(bit))
  ELSE Xor8(b, Pow2(bit))

\* ------------------------------------------------------------------------
\* Errors: kind is the sentinel errors.Is finds, ctx the labels wrapped around it
NoErr == [kind |-> "nil", ctx |-> <<>>]

Err(k) == [kind |-> k, ctx |-> <<>>]

\* (faulty variant) the error is passed on as it is, without a label
Wrap_Unlabelled(label, e) == e

\* fmt.Errorf("<label>: %w", e)
Wrap(label, e) == [kind |-> e.kind, ctx |-> <<label>> \o e.ctx]

ErrorsIs(e, k) == e.kind = k


\* ------------------------------------------------------------------------
\* Settings of the key derivation (wa.Settings) and their wire form
NewSettings(memory, time, threads, saltLen, keyLen) ==
  [Memory |-> memory, Time |-> time, Threads |-> threads,
   SaltLength |-> saltLen, KeyLength |-> keyLen]

\* (faulty variant) only the two low bytes of the value are written
PutUint32_LowHalf(v) == <<v % 256, (v \div 256) % 256, 0, 0>>

PutUint32(v) ==
  <<v % 256, (v \div 256) % 256, (v \div 65536) % 256, (v \div 16777216) % 256>>

Uint32(b) == b[1] + 256 * b[2] + 65536 * b[3] + 16777216 * b[4]

Serialize(s) ==
  PutUint32(s.Memory) \o PutUint32(s.Time) \o <<s.Threads>>
    \o PutUint32(s.SaltLength) \o PutUint32(s.KeyLength)

SettingsFromBytes(b) ==
  [Memory |-> Uint32(SubSeq(b, 1, 4)), Time |-> Uint32(SubSeq(b, 5, 8)),
   Threads |-> b[9], SaltLength |-> Uint32(SubSeq(b, 10, 13)),
   KeyLength |-> Uint32(SubSeq(b, 14, 17))]

\* ------------------------------------------------------------------------
\* Key derivation
\* argon2.IDKey aborts (panics) outside its domain
IDKeyAborts(settings) == settings.Time < 1 \/ settings.Threads < 1

\* (faulty variant) the key material does not depend on the password
IDKey_AnyPassword(password, salt, settings) ==
  [pw |-> <<>>, salt |-> salt, time |-> settings.Time, memory |-> settings.Memory,
   threads |-> settings.Threads, keyLen |-> settings.KeyLength]

\* the key material of one derivation: a function of all of its inputs
IDKey(password, salt, settings) ==
  [pw |-> password, salt |-> salt, time |-> settings.Time, memory |-> settings.Memory,
   threads |-> settings.Threads, keyLen |-> settings.KeyLength]

NoKey == [km |-> <<>>, from |-> 0, to |-> 0]

\* key[from:to] of the derived material
KeySlice(km, from, to) == [km |-> km, from |-> from, to |-> to]

\* DeriveKeys: [abort, aesKey, hmacKey].  key[:aesKeySize] and
\* key[aesKeySize : hmacKeySize+aesKeySize] abort on a key shorter than the bound.
DeriveKeys(password, salt, settings) ==
  IF IDKeyAborts(settings) \/ settings.KeyLength < hmacKeySize + aesKeySize
  THEN [abort |-> TRUE, aesKey |-> NoKey, hmacKey |-> NoKey]
  ELSE LET key == IDKey(password, salt, settings)
       IN [abort |-> FALSE,
           aesKey |-> KeySlice(key, 0, aesKeySize),
           hmacKey |-> KeySlice(key, aesKeySize, hmacKeySize + aesKeySize)]

\* aes.NewCipher accepts keys of 16, 24 or 32 bytes
NewCipherFails(aesKey) == (aesKey.to - aesKey.from) \notin {16, 24, 32}

\* ------------------------------------------------------------------------
\* AES-CTR keystream: a byte for every (key, iv, position); the numbers of the
\* key material enter by their low 24 bits
Low24(v) == v % 16777216

NewCTR(aesKey, iv) ==
  LET km == aesKey.km
  IN (SumSeq(km.pw) + 3 * SumSeq(km.salt) + 5 * Low24(km.time) + 7 * km.threads
        + 11 * Low24(km.keyLen) + Low24(km.memory) + 13 * SumSeq(iv) + aesKey.from)
       % 65536

KeyStreamByte(seed, pos) ==
  (seed + 31 * (pos \div blockSize) + 17 * (pos % blockSize)) % 256

\* cipher.Stream.XORKeyStream on the bytes at stream positions pos, pos+1, ...
XORKeyStream(seed, pos, data) ==
  [i \in 1..Len(data) |-> Xor8(data[i], KeyStreamByte(seed, pos + i - 1))]

\* ------------------------------------------------------------------------
\* rand.Reader: read number k (0-based) fails when k = failOnRead, and
\* otherwise fills the whole buffer
RandBytes(k, n) == [i \in 1..n |-> (97 * (k + 1) + 5 * i) % 256]


\* ------------------------------------------------------------------------
\* The keyed hash.  Sum of (key, data) is tag number MacId; MacTable is the
\* table after the lookup.
MacKnown(table, key, data) ==
  \E i \in 1..Len(table) : table[i] = [key |-> key, data |-> data]

MacId(table, key, data) ==
  IF MacKnown(table, key, data)
  THEN CHOOSE i \in 1..Len(table) : table[i] = [key |-> key, data |-> data]
  ELSE Len(table) + 1

MacTable(table, key, data) ==
  IF MacKnown(table, key, data) THEN table
  ELSE Append(table, [key |-> key, data |-> data])

\* hash.Sum(nil): the hmacSize bytes of tag number id
Sum(id) == [i \in 1..hmacSize |-> MacByte(id, i - 1, 0)]

\* ------------------------------------------------------------------------
\* State
VARIABLES
  pc,    \* where the run is: encrypting, in transit, decrypting, reading
  inp,   \* arguments of the encryption and the behaviour of rand.Reader
  rnd,   \* number of Read calls made on rand.Reader
  kdf,   \* the key derivations invoked so far, in order
  enc,   \* what NewEncrypter / NewEncrypterWithSettings returned and built
  es,    \* the readers composed into the stream encrypt returns
  out,   \* what the consumer of that stream has been handed
  macs,  \* the tags computed so far
  wire,  \* what reaches NewDecrypter: the stream, its reader's failure, the password
  dec,   \* the locals of NewDecrypter
  tmp,   \* the temporary file
  rd     \* what the caller of NewDecrypter has read from the returned stream

vars == <<pc, inp, rnd, kdf, enc, es, out, macs, wire, dec, tmp, rd>>

Password1 == <<112, 119>>

Password2 == <<119, 114, 111, 110, 103>>

\* ------------------------------------------------------------------------
\* Encrypter
NoEnc ==
  [state |-> "none", err |-> NoErr, header |-> <<>>, hmacKey |-> NoKey, seed |-> 0]

\* the readers of io.MultiReader(io.TeeReader(io.MultiReader(headerReader,
\* streamReader), hmacReadWriter), hmacReadWriter), all at their start
NewStream ==
  [hdrPos |-> 0, srcPos |-> 0, ctrPos |-> 0, inner |-> 0, outer |-> 0,
   done |-> FALSE, written |-> <<>>, sumPos |-> 0, checksum |-> <<>>]

\* NewEncrypterWithSettings, given the number of reads rand.Reader has served
EncrypterWithSettings(password, memory, time, threads, failOnRead, reads) ==
  LET settings == NewSettings(memory, time, threads, saltSize, aesKeySize + hmacSize)
      settingsSerialized == Serialize(settings)
      salt == RandBytes(reads, settings.SaltLength)
      keys == DeriveKeys(password, salt, settings)
      iv == RandBytes(reads + 1, blockSize)
      derivation == [by |-> "encrypt", password |-> password]
  IN IF failOnRead = reads
     THEN [enc |-> [NoEnc EXCEPT !.state = "error",
                      !.err = Wrap("failed to generate random salt", Err("ErrRandom"))],
           rnd |-> reads + 1, kdf |-> <<>>]
     ELSE IF keys.abort
     THEN [enc |-> [NoEnc EXCEPT !.state = "abort"],
           rnd |-> reads + 1, kdf |-> <<derivation>>]
     ELSE IF failOnRead = reads + 1
     THEN [enc |-> [NoEnc EXCEPT !.state = "error",
                      !.err = Wrap("failed to generate random iv", Err("ErrRandom"))],
           rnd |-> reads + 2, kdf |-> <<derivation>>]
     ELSE IF NewCipherFails(keys.aesKey)
     THEN [enc |-> [NoEnc EXCEPT !.state = "error",
                      !.err = Wrap("failed to create AES block cipher", Err("KeySizeError"))],
           rnd |-> reads + 2, kdf |-> <<derivation>>]
     ELSE [enc |-> [state |-> "stream", err |-> NoErr,
                    header |-> settingsSerialized \o salt \o iv,
                    hmacKey |-> keys.hmacKey, seed |-> NewCTR(keys.aesKey, iv)],
           rnd |-> reads + 2, kdf |-> <<derivation>>]

AfterEncrypter(state) ==
  IF state = "stream" THEN "encReading" ELSE "encFailed"

\* NewEncrypter(r, pass)
NewEncrypter ==
  /\ pc = "encrypt"
  /\ inp.via = "NewEncrypter"
  /\ IF Len(inp.pass) = 0
     THEN /\ enc' = [NoEnc EXCEPT !.state = "error", !.err = Err("ErrPassPhraseEmpty")]
          /\ pc' = "encFailed"
          /\ UNCHANGED <<rnd, kdf>>
     ELSE LET r == EncrypterWithSettings(inp.pass, defaultArgon2Memory, defaultArgon2Time,
                                         defaultArgon2Threads, inp.failOnRead, rnd)
          IN /\ enc' = r.enc
             /\ rnd' = r.rnd
             /\ kdf' = kdf \o r.kdf
             /\ pc' = AfterEncrypter(r.enc.state)
  /\ UNCHANGED <<inp, es, out, macs, wire, dec, tmp, rd>>

\* NewEncrypterWithSettings(r, password, memory, time, threads)
NewEncrypterWithSettings ==
  /\ pc = "encrypt"
  /\ inp.via = "NewEncrypterWithSettings"
  /\ LET r == EncrypterWithSettings(inp.pass, inp.memory, inp.time, inp.threads,
                                    inp.failOnRead, rnd)
     IN /\ enc' = r.enc
        /\ rnd' = r.rnd
        /\ kdf' = kdf \o r.kdf
        /\ pc' = AfterEncrypter(r.enc.state)
  /\ UNCHANGED <<inp, es, out, macs, wire, dec, tmp, rd>>

\* ------------------------------------------------------------------------
\* Reading the stream encrypt returned
EOF == Err("EOF")

\* the plaintext source: Read with a buffer of n bytes at offset pos.  A source
\* that fails hands out its bytes before srcErrAt and then reports an error
\* that is not io.EOF (failReadWriter)
SourceRead(pos, n) ==
  LET limit == IF inp.srcFails THEN Min(inp.srcErrAt, Len(inp.plain)) ELSE Len(inp.plain)
      k == Min(n, limit - pos)
  IN IF pos < limit THEN [data |-> SubSeq(inp.plain, pos + 1, pos + k), err |-> NoErr]
     ELSE IF inp.srcFails THEN [data |-> <<>>, err |-> Err("ErrSource")]
     ELSE [data |-> <<>>, err |-> EOF]

\* (faulty variant) a Read that serves header bytes fills what is left of the
\* buffer from the source, and drops it
InnerRead_ReadAhead(e, n) ==
  IF e.inner = 0 /\ e.hdrPos < Len(enc.header)
  THEN LET k == Min(n, Len(enc.header) - e.hdrPos)
       IN [data |-> SubSeq(enc.header, e.hdrPos + 1, e.hdrPos + k), err |-> NoErr,
           es |-> [e EXCEPT !.hdrPos = @ + k,
                            !.srcPos = @ + Len(SourceRead(e.srcPos, n - k).data)]]
  ELSE IF e.inner <= 1
  THEN LET Streamed(r) ==
             IF r.err = NoErr
             THEN [data |-> XORKeyStream(enc.seed, e.ctrPos, r.data), err |-> NoErr,
                   es |-> [e EXCEPT !.inner = 1, !.srcPos = @ + Len(r.data),
                                    !.ctrPos = @ + Len(r.data)]]
             ELSE IF r.err = EOF
             THEN [data |-> <<>>, err |-> EOF, es |-> [e EXCEPT !.inner = 2]]
             ELSE [data |-> <<>>, err |-> r.err, es |-> [e EXCEPT !.inner = 1]]
       IN Streamed(SourceRead(e.srcPos, n))
  ELSE [data |-> <<>>, err |-> EOF, es |-> e]

\* io.MultiReader(headerReader, streamReader).Read with a buffer of n bytes
InnerRead(e, n) ==
  IF e.inner = 0 /\ e.hdrPos < Len(enc.header)
  THEN LET k == Min(n, Len(enc.header) - e.hdrPos)
       IN [data |-> SubSeq(enc.header, e.hdrPos + 1, e.hdrPos + k), err |-> NoErr,
           es |-> [e EXCEPT !.hdrPos = @ + k]]
  ELSE IF e.inner <= 1
  THEN \* cipher.StreamReader.Read: one Read of the source, then XORKeyStream
       LET Streamed(r) ==
             IF r.err = NoErr
             THEN [data |-> XORKeyStream(enc.seed, e.ctrPos, r.data), err |-> NoErr,
                   es |-> [e EXCEPT !.inner = 1, !.srcPos = @ + Len(r.data),
                                    !.ctrPos = @ + Len(r.data)]]
             ELSE IF r.err = EOF
             THEN [data |-> <<>>, err |-> EOF, es |-> [e EXCEPT !.inner = 2]]
             ELSE [data |-> <<>>, err |-> r.err, es |-> [e EXCEPT !.inner = 1]]
       IN Streamed(SourceRead(e.srcPos, n))
  ELSE [data |-> <<>>, err |-> EOF, es |-> e]

\* (faulty variant) Write does not look at done
HashWrite_Unsealed(e, p) ==
  [n |-> Len(p), err |-> NoErr, es |-> [e EXCEPT !.written = @ \o p]]

\* hashReadWriter.Write
HashWrite(e, p) ==
  IF e.done THEN [n |-> 0, err |-> Err("ErrWriteAfterRead"), es |-> e]
  ELSE [n |-> Len(p), err |-> NoErr, es |-> [e EXCEPT !.written = @ \o p]]

\* (faulty variant) what is read is not written to the hashReadWriter
TeeRead_NoWrite(e, n) == InnerRead(e, n)

\* io.TeeReader(inner, hmacReadWriter).Read
TeeRead(e, n) ==
  LET Written(r, w) ==
        IF w.err # NoErr
        THEN [data |-> Take(r.data, w.n), err |-> w.err, es |-> w.es]
        ELSE [r EXCEPT !.es = w.es]
      Teed(r) == IF Len(r.data) > 0 THEN Written(r, HashWrite(r.es, r.data)) ELSE r
  IN Teed(InnerRead(e, n))

\* (faulty variant) every Read finalizes the hash anew and serves it from its start
HashRead_Restart(e, table, n) ==
  LET sum == Sum(MacId(table, enc.hmacKey, e.written))
      k == Min(n, Len(sum))
  IN [data |-> Take(sum, k), err |-> NoErr,
      es |-> [e EXCEPT !.done = TRUE, !.checksum = sum, !.sumPos = k],
      macs |-> MacTable(table, enc.hmacKey, e.written)]

\* hashReadWriter.Read: [data, err, es, macs]
HashRead(e, table, n) ==
  LET first == ~e.done
      e1 == IF first
            THEN [e EXCEPT !.done = TRUE,
                           !.checksum = Sum(MacId(table, enc.hmacKey, e.written))]
            ELSE e
      t1 == IF first THEN MacTable(table, enc.hmacKey, e.written) ELSE table
      k == Min(n, Len(e1.checksum) - e1.sumPos)
  IN IF e1.sumPos >= Len(e1.checksum)
     THEN [data |-> <<>>, err |-> EOF, es |-> e1, macs |-> t1]
     ELSE [data |-> SubSeq(e1.checksum, e1.sumPos + 1, e1.sumPos + k), err |-> NoErr,
           es |-> [e1 EXCEPT !.sumPos = @ + k], macs |-> t1]

\* (faulty variant) the hashReadWriter is not among the readers of the outer MultiReader
StreamRead_NoTrailer(e, table, n) ==
  LET Only(t) == [data |-> t.data, err |-> t.err, es |-> t.es, macs |-> table]
  IN Only(TeeRead(e, n))

\* (faulty variant) the outer MultiReader moves on to the hashReadWriter after any
\* error of the tee, not only after io.EOF
StreamRead_AnyErrorEnds(e, table, n) ==
  LET viaTee == e.outer = 0
      FromHash(h) ==
        IF h.err = EOF
        THEN [data |-> <<>>, err |-> EOF, es |-> [h.es EXCEPT !.outer = 2],
              macs |-> h.macs]
        ELSE [data |-> h.data, err |-> NoErr, es |-> h.es, macs |-> h.macs]
      Onward(e1) ==
        IF e1.outer = 1 THEN FromHash(HashRead(e1, table, n))
        ELSE [data |-> <<>>, err |-> EOF, es |-> e1, macs |-> table]
      Multi(t) ==
        IF viaTee /\ ~(t.err # NoErr /\ Len(t.data) = 0)
        THEN [data |-> t.data, err |-> t.err, es |-> t.es, macs |-> table]
        ELSE IF viaTee THEN Onward([t.es EXCEPT !.outer = 1])
        ELSE Onward(e)
  IN Multi(TeeRead(e, n))

\* (faulty variant) the outer MultiReader goes on to the hashReadWriter whenever
\* the tee gave no bytes and no error, and drops the tee only at its io.EOF
StreamRead_EmptyEnds(e, table, n) ==
  LET viaTee == e.outer = 0
      FromHash(h) ==
        IF h.err = EOF
        THEN [data |-> <<>>, err |-> EOF, es |-> [h.es EXCEPT !.outer = 2],
              macs |-> h.macs]
        ELSE [data |-> h.data, err |-> NoErr, es |-> h.es, macs |-> h.macs]
      Onward(e1) ==
        IF e1.outer <= 1 THEN FromHash(HashRead(e1, table, n))
        ELSE [data |-> <<>>, err |-> EOF, es |-> e1, macs |-> table]
      Multi(t) ==
        IF viaTee /\ (Len(t.data) > 0 \/ t.err \notin {NoErr, EOF})
        THEN [data |-> t.data, err |-> t.err, es |-> t.es, macs |-> table]
        ELSE IF viaTee /\ t.err = EOF THEN Onward([t.es EXCEPT !.outer = 1])
        ELSE IF viaTee THEN Onward(t.es)
        ELSE Onward(e)
  IN Multi(TeeRead(e, n))

\* the outer io.MultiReader(tee, hmacReadWriter).Read: [data, err, es, macs]
StreamRead(e, table, n) ==
  LET viaTee == e.outer = 0
      FromHash(h) ==
        IF h.err = EOF
        THEN [data |-> <<>>, err |-> EOF, es |-> [h.es EXCEPT !.outer = 2],
              macs |-> h.macs]
        ELSE [data |-> h.data, err |-> NoErr, es |-> h.es, macs |-> h.macs]
      Onward(e1) ==
        IF e1.outer = 1 THEN FromHash(HashRead(e1, table, n))
        ELSE [data |-> <<>>, err |-> EOF, es |-> e1, macs |-> table]
      Multi(t) ==
        IF viaTee /\ ~(t.err = EOF /\ Len(t.data) = 0)
        THEN [data |-> t.data, err |-> t.err, es |-> t.es, macs |-> table]
        ELSE IF viaTee THEN Onward([t.es EXCEPT !.outer = 1])
        ELSE Onward(e)
  IN Multi(TeeRead(e, n))

\* the consumer reads once with a buffer of n bytes, until the first error (io.Copy)
EncRead ==
  /\ pc = "encReading"
  /\ \E n \in ReadSizesFor(Len(enc.header) + Len(inp.plain) + hmacSize) :
       \E r \in {StreamRead(es, macs, n)} :
          /\ es' = r.es
          /\ macs' = r.macs
          /\ out' = [data |-> out.data \o r.data, err |-> r.err]
          /\ pc' = IF r.err = NoErr THEN "encReading" ELSE "encDone"
  /\ UNCHANGED <<inp, rnd, kdf, enc, wire, dec, tmp, rd>>


\* ------------------------------------------------------------------------
\* Between encrypt and decrypt: what the ciphertext becomes on its way
HeaderLen == SerializedSettingsLength + saltSize + blockSize

NoWire ==
  [input |-> <<>>, pass |-> <<>>, fault |-> "none", errAt |-> 0, tamper |-> "none",
   cut |-> 0, step |-> chunkSize, eofWithData |-> FALSE]

\* how the reader handed to NewDecrypter divides its bytes into Reads: it
\* returns at most step bytes a Read, and reports io.EOF either together with
\* its last bytes or by a Read of their own
ReadSteps == {chunkSize, 1000, hmacSize - 1}

Divided(w) ==
  {[w EXCEPT !.step = s, !.eofWithData = e] : s \in ReadSteps, e \in BOOLEAN}

Ciphertext == out.data

Complete == pc = "encDone" /\ out.err = EOF

ToDecrypt(w) ==
  /\ wire' = w
  /\ pc' = "decrypt"
  /\ UNCHANGED <<inp, rnd, kdf, enc, es, out, macs, dec, tmp, rd>>

\* the ciphertext arrives as written and is decrypted with the password it was made with
Deliver ==
  /\ Complete
  /\ \E w \in Divided([NoWire EXCEPT !.input = Ciphertext, !.pass = inp.pass]) :
       ToDecrypt(w)

\* ... with another password, or with none
OtherPassword ==
  /\ Complete
  /\ \E k \in {<<>>, Password1, Password2} \ {inp.pass} :
       ToDecrypt([NoWire EXCEPT !.input = Ciphertext, !.pass = k, !.tamper = "password"])

\* the positions of body and trailer at most FlipSpan bytes from either end of each
FlipPositions(c) ==
  LET bodyEnd == Len(c) - hmacSize
  IN {p \in (HeaderLen + 1)..Len(c) :
        \/ p <= bodyEnd /\ (p - HeaderLen <= FlipSpan \/ bodyEnd - p < FlipSpan)
        \/ p > bodyEnd /\ (p - bodyEnd <= FlipSpan \/ Len(c) - p < FlipSpan)}

\* one bit of one byte of body or trailer is inverted
FlipOneBit ==
  /\ Complete
  /\ \E p \in FlipPositions(Ciphertext), bit \in FlipBits :
       ToDecrypt([NoWire EXCEPT
                    !.input = [Ciphertext EXCEPT ![p] = FlipBit(@, bit)],
                    !.pass = inp.pass, !.tamper = "flip"])

\* a ciphertext whose body is no longer than a trailer
ShortCipher(c) == Len(c) <= HeaderLen + 2 * hmacSize

\* the numbers of trailing bytes that are cut off: a few, the trailer give or take
\* one byte, and (of a short ciphertext) all that leave at most the header and one byte
Cuts(c) ==
  {k \in 1..Len(c) :
     \/ k <= MaxCut
     \/ k \in {hmacSize - 1, hmacSize, hmacSize + 1}
     \/ ShortCipher(c) /\ Len(c) - k <= HeaderLen + 1}

Truncate ==
  /\ Complete
  /\ \E k \in Cuts(Ciphertext) :
       \E w \in Divided([NoWire EXCEPT !.input = Take(Ciphertext, Len(Ciphertext) - k),
                                        !.pass = inp.pass, !.tamper = "cut", !.cut = k]) :
         ToDecrypt(w)

\* settings an attacker may put into the header
CraftedSettings(s) ==
  {[s EXCEPT !.Time = 0], [s EXCEPT !.Threads = 0],
   [s EXCEPT !.Time = 0, !.Threads = 0],
   [s EXCEPT !.KeyLength = 0], [s EXCEPT !.KeyLength = hmacKeySize + aesKeySize - 1],
   [s EXCEPT !.KeyLength = hmacKeySize + aesKeySize],
   [s EXCEPT !.SaltLength = 0], [s EXCEPT !.SaltLength = saltSize + 1]}

CraftedLens(c) ==
  {Len(c), SerializedSettingsLength, SerializedSettingsLength + 1, HeaderLen - 1, HeaderLen}

\* the settings of the header are replaced, and the stream possibly cut short
CraftHeader ==
  /\ Complete
  /\ ShortCipher(Ciphertext)
  /\ \E s \in CraftedSettings(SettingsFromBytes(Take(Ciphertext, SerializedSettingsLength))),
        l \in CraftedLens(Ciphertext) :
       ToDecrypt([NoWire EXCEPT
                    !.input = Take(Serialize(s) \o Drop(Ciphertext, SerializedSettingsLength), l),
                    !.pass = inp.pass, !.tamper = "header"])

\* where the reader of the ciphertext may fail instead of delivering the next byte
FaultPositions(c) ==
  {0, SerializedSettingsLength, HeaderLen - 1, HeaderLen, HeaderLen + 1, Len(c)}

\* the environment fails: the reader, or an operation on the temporary file
Fault ==
  /\ Complete
  /\ \/ \E p \in FaultPositions(Ciphertext) :
          ToDecrypt([NoWire EXCEPT !.input = Ciphertext, !.pass = inp.pass,
                                   !.fault = "reader", !.errAt = p])
     \/ \E f \in {"createTemp", "write", "seek"} :
          ToDecrypt([NoWire EXCEPT !.input = Ciphertext, !.pass = inp.pass, !.fault = f])


\* ------------------------------------------------------------------------
\* The reader handed to NewDecrypter: the bytes of wire.input, then io.EOF; with
\* the fault "reader" it fails instead of delivering byte number errAt
ReadLimit(w) ==
  IF w.fault = "reader" THEN Min(w.errAt, Len(w.input)) ELSE Len(w.input)

ReaderEnd(w) == IF w.fault = "reader" THEN Err("ErrReader") ELSE EOF

\* io.ReadFull(r, buf) with len(buf) = n, the reader at pos: [data, err, pos]
ReadFull(w, pos, n) ==
  LET avail == ReadLimit(w) - pos
  IN IF n = 0 THEN [data |-> <<>>, err |-> NoErr, pos |-> pos]
     ELSE IF avail >= n
     THEN [data |-> SubSeq(w.input, pos + 1, pos + n), err |-> NoErr, pos |-> pos + n]
     ELSE [data |-> SubSeq(w.input, pos + 1, pos + avail),
           err |-> IF w.fault = "reader" THEN Err("ErrReader")
                   ELSE IF avail = 0 THEN EOF ELSE Err("ErrUnexpectedEOF"),
           pos |-> pos + avail]

NoParams ==
  [err |-> NoErr, abort |-> FALSE, aesKey |-> NoKey, hmacKey |-> NoKey, iv |-> <<>>,
   header |-> <<>>, pos |-> 0, kdf |-> <<>>]

\* (faulty variant) no settings are refused for their number of rounds
TooLessRounds_Never(settings) == FALSE

\* if settings.Time < 1 { return ..., ErrTooLessRounds }
TooLessRounds(settings) == settings.Time < 1

\* (faulty variant) the salt has the length the encrypter uses
SaltLen_Fixed(settings) == saltSize

\* salt := make([]byte, settings.SaltLength)
SaltLen(settings) == settings.SaltLength

\* readParameters after its check of the password: settings, salt and IV are
\* read in this order, then the rounds are checked and the keys derived
readHeader(w) ==
  LET st == ReadFull(w, 0, SerializedSettingsLength)
      settings == SettingsFromBytes(st.data)
      sa == ReadFull(w, st.pos, SaltLen(settings))
      iv == ReadFull(w, sa.pos, blockSize)
      keys == DeriveKeys(w.pass, sa.data, settings)
      derivation == [by |-> "decrypt", password |-> w.pass]
  IN IF st.err # NoErr
     THEN [NoParams EXCEPT !.err = Wrap("failed to read Argon2 settings", st.err),
                           !.pos = st.pos]
     ELSE IF sa.err # NoErr
     THEN [NoParams EXCEPT !.err = Wrap("failed to read salt", sa.err), !.pos = sa.pos]
     ELSE IF iv.err # NoErr
     THEN [NoParams EXCEPT !.err = Wrap("failed to read IV", iv.err), !.pos = iv.pos]
     ELSE IF TooLessRounds(settings)
     THEN [NoParams EXCEPT !.err = Err("ErrTooLessRounds"), !.pos = iv.pos]
     ELSE IF keys.abort
     THEN [NoParams EXCEPT !.abort = TRUE, !.pos = iv.pos, !.kdf = <<derivation>>]
     ELSE [err |-> NoErr, abort |-> FALSE, aesKey |-> keys.aesKey,
           hmacKey |-> keys.hmacKey, iv |-> iv.data,
           header |-> st.data \o sa.data \o iv.data, pos |-> iv.pos,
           kdf |-> <<derivation>>]

\* (faulty variant) the password is looked at only after the header was read
readParameters_HeaderFirst(w) ==
  LET Checked(p) ==
        IF p.err = NoErr /\ ~p.abort /\ Len(w.pass) = 0
        THEN [NoParams EXCEPT !.err = Err("ErrPassPhraseEmpty"), !.pos = p.pos,
                              !.kdf = p.kdf]
        ELSE p
  IN Checked(readHeader(w))

\* readParameters(r, password)
readParameters(w) ==
  IF Len(w.pass) = 0
  THEN [NoParams EXCEPT !.err = Err("ErrPassPhraseEmpty")]
  ELSE readHeader(w)

\* ------------------------------------------------------------------------
\* Decrypter
NoDec ==
  [state |-> "none", err |-> NoErr, stream |-> FALSE, pos |-> 0, hmacKey |-> NoKey,
   aesKey |-> NoKey, iv |-> <<>>, seed |-> 0, header |-> <<>>, hashed |-> <<>>,
   buffer |-> <<>>, rerr |-> NoErr, checksum |-> <<>>, sum |-> <<>>,
   compared |-> FALSE]

NoTemp == [created |-> FALSE, exists |-> FALSE, open |-> FALSE, content |-> <<>>, off |-> 0]

\* what Codec.Decode returns: time.Time{}, nil and an error, or Deadline, Values and nil
NoSession == [err |-> NoErr, Deadline |-> [wall |-> 0, mono |-> 0], Values |-> {}]

NoRead ==
  [data |-> <<>>, err |-> NoErr, ctrPos |-> 0, closed |-> FALSE, codecErr |-> NoErr,
   decoded |-> NoSession]

\* return nil, err: what NewDecrypter leaves behind when it fails
Failure(d, e) == [d EXCEPT !.state = "error", !.err = e]

\* the deferred os.RemoveAll(tempFile.Name()), if the file was created
Removed(t) == IF t.created THEN [t EXCEPT !.exists = FALSE] ELSE t

\* NewDecrypter, up to hasher.Write(header), on the reader w: [dec, pc, kdf]
Started(w) ==
  LET With(p, d) ==
        IF p.abort
        THEN [dec |-> [d EXCEPT !.state = "abort"], pc |-> "decAborted", kdf |-> p.kdf]
        ELSE IF p.err # NoErr
        THEN [dec |-> Failure(d, Wrap("failed to read encryption parameters", p.err)),
              pc |-> "decFailed", kdf |-> p.kdf]
        ELSE [dec |-> [d EXCEPT !.state = "running", !.hmacKey = p.hmacKey,
                                !.aesKey = p.aesKey, !.iv = p.iv,
                                !.header = p.header, !.hashed = p.header],
              pc |-> "decTemp", kdf |-> p.kdf]
      Read(p) == With(p, [NoDec EXCEPT !.pos = p.pos])
  IN Read(readParameters(w))

DecryptStart ==
  /\ pc = "decrypt"
  /\ \E r \in {Started(wire)} :
       /\ kdf' = kdf \o r.kdf
       /\ dec' = r.dec
       /\ pc' = r.pc
  /\ UNCHANGED <<inp, rnd, enc, es, out, macs, wire, tmp, rd>>

\* os.CreateTemp, aes.NewCipher, and the decrypter, writer and buffer set up;
\* t is the file os.CreateTemp hands out: [dec, tmp, pc]
TempCreated(w, d, t) ==
  IF w.fault = "createTemp"
  THEN [dec |-> Failure(d, Wrap("failed to create temporary file", Err("ErrCreateTemp"))),
        tmp |-> NoTemp, pc |-> "decFailed"]
  ELSE IF NewCipherFails(d.aesKey)
  THEN [dec |-> Failure(d, Wrap("failed to create AES block cipher", Err("KeySizeError"))),
        tmp |-> Removed(t), pc |-> "decFailed"]
  ELSE [dec |-> [d EXCEPT !.seed = NewCTR(d.aesKey, d.iv),
                          !.checksum = [i \in 1..hmacSize |-> 0]],
        tmp |-> t, pc |-> "decLoop"]

\* the file os.CreateTemp has created and opened
NewTemp == [NoTemp EXCEPT !.created = TRUE, !.exists = TRUE, !.open = TRUE]

CreateTemp ==
  /\ pc = "decTemp"
  /\ \E r \in {TempCreated(wire, dec, NewTemp)} :
       /\ dec' = r.dec
       /\ tmp' = r.tmp
       /\ pc' = r.pc
  /\ UNCHANGED <<inp, rnd, kdf, enc, es, out, macs, wire, rd>>

\* one Read of the reader handed to NewDecrypter, at pos, into room for n bytes
ReaderRead(w, pos, n) ==
  LET k == Min(Min(n, w.step), ReadLimit(w) - pos)
  IN IF k = 0 THEN [data |-> <<>>, err |-> ReaderEnd(w)]
     ELSE [data |-> SubSeq(w.input, pos + 1, pos + k),
           err |-> IF w.eofWithData /\ w.fault # "reader" /\ pos + k = Len(w.input)
                   THEN EOF ELSE NoErr]

\* buffer.Peek(chunkSize) of the bufio.Reader of size chunkSize: the buffer is
\* filled Read by Read until it holds chunkSize bytes or a Read reported an
\* error; rerr is the error the bufio.Reader remembers, handed out (and
\* forgotten) when the buffer holds less than chunkSize: [buffer, pos, err, rerr]
RECURSIVE Peek(_, _, _, _)
Peek(w, buffer, pos, rerr) ==
  IF Len(buffer) < chunkSize /\ rerr = NoErr
  THEN CHOOSE filled \in {Peek(w, b.buffer, b.pos, b.err) :
                            b \in {[buffer |-> buffer \o r.data, pos |-> pos + Len(r.data),
                                    err |-> r.err] :
                                     r \in {ReaderRead(w, pos, chunkSize - Len(buffer))}}} :
         TRUE
  ELSE IF Len(buffer) < chunkSize
  THEN [buffer |-> buffer, pos |-> pos, err |-> rerr, rerr |-> NoErr]
  ELSE [buffer |-> buffer, pos |-> pos, err |-> NoErr, rerr |-> rerr]

\* (faulty variant) the bytes are copied to the file only, not to the hasher
CopyN_FileOnly(w, d, t, buffer, n) ==
  IF n = 0
  THEN [hashed |-> d.hashed, content |-> t.content, buffer |-> buffer, err |-> NoErr]
  ELSE IF w.fault = "write"
  THEN [hashed |-> d.hashed, content |-> t.content,
        buffer |-> Drop(buffer, n), err |-> Err("ErrWrite")]
  ELSE [hashed |-> d.hashed, content |-> t.content \o Take(buffer, n),
        buffer |-> Drop(buffer, n), err |-> NoErr]

\* io.CopyN(io.MultiWriter(hasher, tempFile), buffer, n): the hasher is written
\* first, then the file: [hashed, content, buffer, err]
CopyN(w, d, t, buffer, n) ==
  IF n = 0
  THEN [hashed |-> d.hashed, content |-> t.content, buffer |-> buffer, err |-> NoErr]
  ELSE IF w.fault = "write"
  THEN [hashed |-> d.hashed \o Take(buffer, n), content |-> t.content,
        buffer |-> Drop(buffer, n), err |-> Err("ErrWrite")]
  ELSE [hashed |-> d.hashed \o Take(buffer, n), content |-> t.content \o Take(buffer, n),
        buffer |-> Drop(buffer, n), err |-> NoErr]

\* (faulty variant) a remainder of exactly hmacSize bytes is refused as well
TooShort_Inclusive(rest) == rest <= hmacSize

\* (faulty variant) a remainder is refused unless it holds two trailers
TooShort_TwoTrailers(rest) == rest < 2 * hmacSize

\* rest < hmacSize: the buffered remainder cannot hold a trailer
TooShort(rest) == rest < hmacSize

\* (faulty variant) nothing of a full chunk is consumed
CopyLen_Nothing(atEnd, rest) == IF atEnd THEN rest - hmacSize ELSE 0

\* (faulty variant) a full chunk is consumed whole, its last hmacSize bytes included
CopyLen_WholeChunk(atEnd, rest) == IF atEnd THEN rest - hmacSize ELSE chunkSize

\* how many bytes of the buffer go to hasher and file: all but the trailer at
\* the end of the stream, chunkSize - hmacSize of a full chunk
CopyLen(atEnd, rest) == IF atEnd THEN rest - hmacSize ELSE chunkSize - hmacSize

\* (faulty variant) the trailer is taken from the head of the buffered bytes
Trailer_FromHead(data, rest) == SubSeq(data, 1, hmacSize)

\* copy(checksum, data[rest-hmacSize:rest])
Trailer(data, rest) == SubSeq(data, rest - hmacSize + 1, rest)

\* one iteration of the loop of NewDecrypter, the file being t: [dec, tmp, pc]
Looped(w, d0, t) ==
  CHOOSE r \in UNION {
    {LET rest == Len(pk.buffer)
         atEnd == ErrorsIs(pk.err, "EOF")
         d == [d0 EXCEPT !.buffer = pk.buffer, !.pos = pk.pos, !.rerr = pk.rerr]
         copied == [d EXCEPT !.hashed = cp.hashed, !.buffer = cp.buffer]
     IN IF pk.err # NoErr /\ ~atEnd
        THEN [dec |-> Failure(d, Wrap("failed to read bytes from reader", pk.err)),
              tmp |-> Removed(t), pc |-> "decFailed"]
        ELSE IF atEnd /\ TooShort(rest)
        THEN [dec |-> Failure(d, Err("ErrMissingData")),
              tmp |-> Removed(t), pc |-> "decFailed"]
        ELSE IF cp.err # NoErr
        THEN [dec |-> Failure(copied,
                              IF atEnd
                              THEN Wrap("failed to rest of buffered bytes", cp.err)
                              ELSE cp.err),
              tmp |-> Removed([t EXCEPT !.content = cp.content]), pc |-> "decFailed"]
        ELSE [dec |-> IF atEnd
                      THEN [copied EXCEPT !.checksum = Trailer(pk.buffer, rest)]
                      ELSE copied,
              tmp |-> [t EXCEPT !.content = cp.content, !.off = Len(cp.content)],
              pc |-> IF atEnd THEN "decAuth" ELSE "decLoop"] :
       cp \in {IF pk.err # NoErr
                    /\ (~ErrorsIs(pk.err, "EOF") \/ TooShort(Len(pk.buffer)))
                THEN CopyN(w, d0, t, pk.buffer, 0)
                ELSE CopyN(w, d0, t, pk.buffer,
                           CopyLen(ErrorsIs(pk.err, "EOF"), Len(pk.buffer)))}} :
    pk \in {Peek(w, d0.buffer, d0.pos, d0.rerr)}} : TRUE

Loop ==
  /\ pc = "decLoop"
  /\ \E r \in {Looped(wire, dec, tmp)} :
       /\ dec' = r.dec
       /\ tmp' = r.tmp
       /\ pc' = r.pc
  /\ UNCHANGED <<inp, rnd, kdf, enc, es, out, macs, wire, rd>>

\* (faulty variant) only the first half of the digests is compared
Equal_FirstHalf(mac1, mac2) == Take(mac1, hmacSize \div 2) = Take(mac2, hmacSize \div 2)

\* (faulty variant) the digests are compared by their lengths only
Equal_LengthOnly(mac1, mac2) == Len(mac1) = Len(mac2)

\* hmac.Equal(mac1, mac2)
Equal(mac1, mac2) == mac1 = mac2

\* (faulty variant) the result of the comparison is ignored
Authenticate_Unchecked ==
  /\ pc = "decAuth"
  /\ dec' = [dec EXCEPT !.sum = Sum(MacId(macs, dec.hmacKey, dec.hashed)),
                        !.compared = TRUE]
  /\ macs' = MacTable(macs, dec.hmacKey, dec.hashed)
  /\ pc' = "decSeek"
  /\ UNCHANGED <<inp, rnd, kdf, enc, es, out, wire, tmp, rd>>

\* if !hmac.Equal(checksum, hasher.Sum(nil)) { return nil, ErrFailedAuthentication }:
\* [dec, tmp, pc, macs]
Authenticated(table, d0, t) ==
  LET sum == Sum(MacId(table, d0.hmacKey, d0.hashed))
      d == [d0 EXCEPT !.sum = sum, !.compared = TRUE]
  IN IF ~Equal(d0.checksum, sum)
     THEN [dec |-> Failure(d, Err("ErrFailedAuthentication")), tmp |-> Removed(t),
           pc |-> "decFailed", macs |-> MacTable(table, d0.hmacKey, d0.hashed)]
     ELSE [dec |-> d, tmp |-> t, pc |-> "decSeek",
           macs |-> MacTable(table, d0.hmacKey, d0.hashed)]

Authenticate ==
  /\ pc = "decAuth"
  /\ \E r \in {Authenticated(macs, dec, tmp)} :
       /\ dec' = r.dec
       /\ tmp' = r.tmp
       /\ pc' = r.pc
       /\ macs' = r.macs
  /\ UNCHANGED <<inp, rnd, kdf, enc, es, out, wire, rd>>

\* tempFile.Seek(0, io.SeekStart) and return decrypter, nil: [dec, tmp, pc]
Sought(w, d, t) ==
  IF w.fault = "seek"
  THEN [dec |-> Failure(d, Wrap("failed to seek to start of file", Err("ErrSeek"))),
        tmp |-> Removed(t), pc |-> "decFailed"]
  ELSE [dec |-> [d EXCEPT !.state = "returned", !.stream = TRUE],
        tmp |-> Removed([t EXCEPT !.off = 0]), pc |-> "decReturned"]

SeekAndReturn ==
  /\ pc = "decSeek"
  /\ \E r \in {Sought(wire, dec, tmp)} :
       /\ dec' = r.dec
       /\ tmp' = r.tmp
       /\ pc' = r.pc
  /\ UNCHANGED <<inp, rnd, kdf, enc, es, out, macs, wire, rd>>

\* cipher.StreamReader.Read on the returned stream with a buffer of n bytes
DecRead ==
  /\ pc = "decReturned"
  /\ dec.stream
  /\ rd.err = NoErr
  /\ \E n \in ReadSizesFor(Len(tmp.content)) :
       LET k == Min(n, Len(tmp.content) - tmp.off)
           c == SubSeq(tmp.content, tmp.off + 1, tmp.off + k)
       IN IF k = 0
          THEN /\ rd' = [rd EXCEPT !.err = EOF]
               /\ tmp' = tmp
          ELSE /\ rd' = [rd EXCEPT !.data = @ \o XORKeyStream(dec.seed, rd.ctrPos, c),
                                   !.ctrPos = @ + k]
               /\ tmp' = [tmp EXCEPT !.off = @ + k]
  /\ UNCHANGED <<pc, inp, rnd, kdf, enc, es, out, macs, wire, dec>>

\* Close of the io.NopCloser the stream is wrapped in
DecClose ==
  /\ pc = "decReturned"
  /\ rd' = [rd EXCEPT !.closed = TRUE]
  /\ pc' = "closed"
  /\ UNCHANGED <<inp, rnd, kdf, enc, es, out, macs, wire, dec, tmp>>

\* Codec.Decode around a failed NewDecrypter
CodecDecodeFails ==
  /\ pc = "decFailed"
  /\ rd' = [rd EXCEPT !.codecErr = Wrap("failed to decrypt session data", dec.err)]
  /\ pc' = "codecFailed"
  /\ UNCHANGED <<inp, rnd, kdf, enc, es, out, macs, wire, dec, tmp>>

\* ------------------------------------------------------------------------
\* The runs
ExplicitSettings == {<<8, 1, 1>>, <<8, 0, 1>>, <<8, 1, 0>>}

\* the plaintexts that fill a chunk are encrypted once each, the others in every way
OneWay(plain, pass, failOnRead) ==
  Len(plain) >= chunkSize - hmacSize => pass = Password1 /\ failOnRead = 2

\* where a failing source reports its error: at its first Read, after one byte,
\* or in place of io.EOF
SourceErrAts(plain) == {0, Min(1, Len(plain)), Len(plain)}

Init ==
  /\ pc = "encrypt"
  /\ \E plain \in Plaintexts, pass \in {<<>>, Password1}, failOnRead \in 0..2 :
       \/ /\ OneWay(plain, pass, failOnRead)
          /\ inp = [plain |-> plain, pass |-> pass, failOnRead |-> failOnRead,
                    via |-> "NewEncrypter", memory |-> defaultArgon2Memory,
                    time |-> defaultArgon2Time, threads |-> defaultArgon2Threads,
                    srcFails |-> FALSE, srcErrAt |-> 0]
       \/ /\ Len(plain) < chunkSize - hmacSize
          /\ \E s \in ExplicitSettings :
               inp = [plain |-> plain, pass |-> pass, failOnRead |-> failOnRead,
                      via |-> "NewEncrypterWithSettings", memory |-> s[1],
                      time |-> s[2], threads |-> s[3],
                      srcFails |-> FALSE, srcErrAt |-> 0]
       \/ /\ pass = Password1 /\ failOnRead = 2
          /\ \E at \in SourceErrAts(plain) :
               inp = [plain |-> plain, pass |-> pass, failOnRead |-> failOnRead,
                      via |-> "NewEncrypterWithSettings", memory |-> 8,
                      time |-> 1, threads |-> 1,
                      srcFails |-> TRUE, srcErrAt |-> at]
  /\ rnd = 0
  /\ kdf = <<>>
  /\ enc = NoEnc
  /\ es = NewStream
  /\ out = [data |-> <<>>, err |-> NoErr]
  /\ macs = <<>>
  /\ wire = NoWire
  /\ dec = NoDec
  /\ tmp = NoTemp
  /\ rd = NoRead

Next ==
  \/ NewEncrypter
  \/ NewEncrypterWithSettings
  \/ EncRead
  \/ Deliver
  \/ OtherPassword
  \/ FlipOneBit
  \/ Truncate
  \/ CraftHeader
  \/ Fault
  \/ DecryptStart
  \/ CreateTemp
  \/ Loop
  \/ Authenticate
  \/ SeekAndReturn
  \/ DecRead
  \/ DecClose
  \/ CodecDecodeFails

Spec == Init /\ [][Next]_vars


\* ------------------------------------------------------------------------
\* Properties
Failed == pc \in {"decFailed", "codecFailed"}

Returned == pc \in {"decReturned", "closed"}

Finished == Failed \/ Returned \/ pc = "decAborted"

Decrypting == Finished \/ pc \in {"decTemp", "decLoop", "decAuth", "decSeek"}

\* the ciphertext reached NewDecrypter as encrypt wrote it, from a reader that
\* does not fail, with the password it was encrypted with
Untouched == wire.tamper = "none" /\ wire.fault = "none"

\* C1: decrypt(encrypt(P, K, S), K) with a non-empty K and S in the domain of the
\* key derivation succeeds, and the returned stream yields exactly P and then
\* end-of-stream.
C1_RoundTrip ==
  (Decrypting /\ Untouched /\ Len(inp.pass) > 0) =>
    /\ ~Failed /\ pc # "decAborted"
    /\ dec.err = NoErr
    /\ rd.err \in {NoErr, EOF}
    /\ rd.data = Take(inp.plain, Len(rd.data))
    /\ (rd.err = EOF => rd.data = inp.plain)

\* the plaintext that spans a full chunk and one byte has been read back whole
C1_Witness ==
  /\ Untouched /\ Returned
  /\ Len(inp.plain) > chunkSize - hmacSize
  /\ rd.err = EOF
  /\ rd.data = inp.plain

\* C2: a stream is returned only after the digest over header and body was
\* compared equal to the last hmacSize bytes of the input; on every failing exit
\* no stream is returned, and without a stream no plaintext byte is read.
C2_VerifiedOrNothing ==
  /\ dec.stream =>
       /\ dec.compared
       /\ dec.err = NoErr
       /\ wire.input = dec.header \o tmp.content \o dec.checksum
       /\ Len(dec.checksum) = hmacSize
       /\ dec.checksum = Sum(MacId(macs, dec.hmacKey, dec.header \o tmp.content))
  /\ ((dec.err # NoErr \/ Failed \/ pc = "decAborted") => ~dec.stream)
  /\ (~dec.stream => rd.data = <<>>)

\* plaintext has been read from a returned stream
C2_Witness == dec.stream /\ dec.compared /\ rd.data # <<>>

AuthenticationFailed == Failed /\ ErrorsIs(dec.err, "ErrFailedAuthentication")

MissingData == Failed /\ ErrorsIs(dec.err, "ErrMissingData")

\* no stream was handed out and nothing was read
NoStream == ~dec.stream /\ ~Returned /\ rd.data = <<>>

\* C3: with one bit of the body or of the trailer of a complete ciphertext
\* inverted, decrypt with the password of the encryption fails with
\* ErrFailedAuthentication and returns no stream.
C3_BitFlipRejected ==
  (Decrypting /\ wire.tamper = "flip" /\ Len(wire.pass) > 0) =>
    /\ NoStream
    /\ pc # "decAborted"
    /\ pc # "decSeek"
    /\ (Failed => AuthenticationFailed)

\* a bit of the last trailer byte of a ciphertext longer than a chunk was
\* inverted, and decrypt has failed
C3_Witness ==
  /\ wire.tamper = "flip" /\ Len(wire.pass) > 0
  /\ Len(wire.input) > HeaderLen + chunkSize
  /\ wire.input[Len(wire.input)] # out.data[Len(out.data)]
  /\ AuthenticationFailed

\* C4: decrypt with a non-empty password other than the one of the encryption
\* fails with ErrFailedAuthentication, which errors.Is still finds under the
\* wrapping of the session codec's Decode, and returns no stream.
C4_WrongPasswordRejected ==
  (Decrypting /\ wire.tamper = "password" /\ Len(wire.pass) > 0) =>
    /\ NoStream
    /\ pc # "decAborted"
    /\ (Failed => AuthenticationFailed)
    /\ (pc = "codecFailed" => /\ ErrorsIs(rd.codecErr, "ErrFailedAuthentication")
                              /\ rd.codecErr # dec.err)

\* Decode has wrapped the failure of a decryption with another password
C4_Witness ==
  /\ wire.tamper = "password" /\ Len(wire.pass) > 0 /\ Len(inp.pass) > 0
  /\ pc = "codecFailed"
  /\ ErrorsIs(rd.codecErr, "ErrFailedAuthentication")

\* the final k bytes of a complete ciphertext were removed, nothing else changed
CutBy(k) == Decrypting /\ wire.tamper = "cut" /\ wire.cut = k /\ Len(wire.pass) > 0

\* C5 (as amended): with only the final byte removed, decrypt fails with
\* ErrFailedAuthentication for every non-empty plaintext, and with ErrMissingData
\* for the empty plaintext, of which only hmacSize - 1 bytes follow the header.
C5_LastByteRemoved ==
  CutBy(1) =>
    /\ NoStream
    /\ pc # "decAborted"
    /\ (Failed => IF Len(inp.plain) = 0 THEN MissingData ELSE AuthenticationFailed)

\* the final byte of the ciphertext of a non-empty plaintext was removed
C5_Witness == CutBy(1) /\ Len(inp.plain) > 0 /\ AuthenticationFailed

\* C5 (as stated): with only the final byte removed, decrypt fails with
\* ErrFailedAuthentication for every plaintext, the empty one included.
C5_AsStated == (CutBy(1) /\ Failed) => AuthenticationFailed

\* C6 (as amended): with exactly the final hmacSize bytes removed, decrypt fails
\* with ErrMissingData for every plaintext shorter than hmacSize bytes, and with
\* ErrFailedAuthentication for every longer one, whose last hmacSize body bytes
\* are then taken for the trailer.
C6_TrailerRemoved ==
  CutBy(hmacSize) =>
    /\ NoStream
    /\ pc # "decAborted"
    /\ (Failed => IF Len(inp.plain) < hmacSize THEN MissingData
                  ELSE AuthenticationFailed)

\* the trailer of the ciphertext of a short plaintext was removed
C6_Witness == CutBy(hmacSize) /\ Len(inp.plain) < hmacSize /\ MissingData

\* C6 (as stated): with exactly the final hmacSize bytes removed, decrypt fails
\* with ErrMissingData for every plaintext, also one of hmacSize bytes or more.
C6_AsStated == (CutBy(hmacSize) /\ Failed) => MissingData

\* C7: an encryption with an empty password fails with ErrPassPhraseEmpty
\* through NewEncrypter and through NewEncrypterWithSettings, before any random
\* byte is drawn, any key derived and any byte of the source read.
C7_EmptyPasswordRefused ==
  (Len(inp.pass) = 0 /\ pc # "encrypt") =>
    /\ enc.state = "error"
    /\ ErrorsIs(enc.err, "ErrPassPhraseEmpty")
    /\ rnd = 0
    /\ kdf = <<>>
    /\ es.srcPos = 0

\* a key was derived by the decrypter
DecryptDerived == \E i \in 1..Len(kdf) : kdf[i].by = "decrypt"

\* C8: decrypt with an empty password fails with ErrPassPhraseEmpty before a
\* byte of the stream is read, a key derived or the temporary file created.
C8_EmptyPasswordFirst ==
  (Decrypting /\ Len(wire.pass) = 0) =>
    /\ Failed
    /\ ErrorsIs(dec.err, "ErrPassPhraseEmpty")
    /\ dec.pos = 0
    /\ ~DecryptDerived
    /\ ~tmp.created
    /\ NoStream

\* a complete ciphertext was refused for the empty password
C8_Witness ==
  /\ Failed /\ Len(wire.pass) = 0
  /\ Len(wire.input) >= HeaderLen + hmacSize
  /\ ErrorsIs(dec.err, "ErrPassPhraseEmpty")

\* the settings at the head of the stream were read in full and have Time < 1
LowRounds ==
  /\ Decrypting /\ Len(wire.pass) > 0
  /\ ReadLimit(wire) >= SerializedSettingsLength
  /\ SettingsFromBytes(Take(wire.input, SerializedSettingsLength)).Time < 1

\* the bytes of settings, salt and IV that the settings at the head announce
AnnouncedHeader ==
  SerializedSettingsLength
    + SettingsFromBytes(Take(wire.input, SerializedSettingsLength)).SaltLength
    + blockSize

\* C9 (as amended): with Time < 1 in the settings decrypt never derives a key;
\* it fails with ErrTooLessRounds if the salt and the IV that follow are read in
\* full, and else with the error of reading the salt or the IV, as the rounds
\* are checked only after both were read.
C9_RoundsCheckedAfterReads ==
  LowRounds =>
    /\ Failed
    /\ ~DecryptDerived
    /\ NoStream
    /\ IF ReadLimit(wire) >= AnnouncedHeader
       THEN ErrorsIs(dec.err, "ErrTooLessRounds") /\ dec.pos = AnnouncedHeader
       ELSE /\ ~ErrorsIs(dec.err, "ErrTooLessRounds")
            /\ \E l \in {"failed to read salt", "failed to read IV"} :
                 \E i \in 1..Len(dec.err.ctx) : dec.err.ctx[i] = l

\* settings with Time < 1, salt and IV were read, and the rounds refused
C9_Witness ==
  /\ LowRounds /\ Failed
  /\ ReadLimit(wire) >= AnnouncedHeader
  /\ ErrorsIs(dec.err, "ErrTooLessRounds")
  /\ dec.pos = AnnouncedHeader

\* C9 (as stated): with Time < 1 in the settings decrypt fails with
\* ErrTooLessRounds whatever follows the settings, having read no byte of salt
\* or IV.
C9_AsStated ==
  LowRounds =>
    /\ Failed
    /\ ErrorsIs(dec.err, "ErrTooLessRounds")
    /\ dec.pos = SerializedSettingsLength

\* C10: for every input stream and non-empty password decrypt ends with a
\* stream or an error value and never aborts, also on Threads = 0 with
\* Time >= 1 and on a KeyLength below hmacKeySize + aesKeySize.
C10_NeverAborts == (Decrypting /\ Len(wire.pass) > 0) => pc # "decAborted"

\* C11: when NewDecrypter fails after os.CreateTemp succeeded, the temporary
\* file is removed and its handle closed by the time the error is returned; when
\* it fails earlier, no temporary file was created.
C11_ReleasedOnFailure ==
  Failed =>
    /\ (tmp.created => ~tmp.exists /\ ~tmp.open)
    /\ (~tmp.created => ~tmp.exists /\ ~tmp.open /\ tmp.content = <<>>)

\* C12: once Close of the returned stream has returned, the temporary file is
\* removed and its handle closed, whenever the caller closes.
C12_ReleasedOnClose == pc = "closed" => ~tmp.exists /\ ~tmp.open

\* ------------------------------------------------------------------------
\* The hashReadWriter on its own: any sequence of Write and Read calls
HashKey ==
  KeySlice(IDKey(Password1, <<>>, NewSettings(8, 1, 1, 0, aesKeySize + hmacSize)),
           aesKeySize, hmacKeySize + aesKeySize)

\* the slices handed to Write and the buffer sizes handed to Read
WriteArgs == {<<>>, <<7>>, <<0, 255>>}

ReadArgs == {0, 1, hmacSize - 1, hmacSize, hmacSize + 1}

\* the calls made so far and the last call with what it returned: the bytes of
\* the writes that returned nil (fed) and the bytes all reads delivered (data)
NoCalls ==
  [op |-> "none", arg |-> 0, n |-> 0, err |-> NoErr, writes |-> 0, reads |-> 0,
   fed |-> <<>>, data |-> <<>>]

HashInit ==
  /\ pc = "hash"
  /\ inp = [plain |-> <<>>, pass |-> <<>>, failOnRead |-> 0, via |-> "NewHashReadWriter",
            memory |-> 0, time |-> 0, threads |-> 0]
  /\ rnd = 0
  /\ kdf = <<>>
  /\ enc = [NoEnc EXCEPT !.state = "hash", !.hmacKey = HashKey]
  /\ es = NewStream
  /\ out = NoCalls
  /\ macs = <<>>
  /\ wire = NoWire
  /\ dec = NoDec
  /\ tmp = NoTemp
  /\ rd = NoRead

\* h.Write(p)
WriteCall ==
  /\ pc = "hash"
  /\ out.writes + out.reads < MaxCalls
  /\ \E p \in WriteArgs :
       LET w == HashWrite(es, p)
       IN /\ es' = w.es
          /\ out' = [out EXCEPT !.op = "Write", !.arg = Len(p), !.n = w.n, !.err = w.err,
                                !.writes = @ + 1,
                                !.fed = IF w.err = NoErr THEN @ \o Take(p, w.n) ELSE @]
  /\ UNCHANGED <<pc, inp, rnd, kdf, enc, macs, wire, dec, tmp, rd>>

\* h.Read(p) with len(p) = n
ReadCall ==
  /\ pc = "hash"
  /\ out.writes + out.reads < MaxCalls
  /\ \E n \in ReadArgs :
       LET r == HashRead(es, macs, n)
       IN /\ es' = r.es
          /\ macs' = r.macs
          /\ out' = [out EXCEPT !.op = "Read", !.arg = n, !.n = Len(r.data), !.err = r.err,
                                !.reads = @ + 1, !.data = @ \o r.data]
  /\ UNCHANGED <<pc, inp, rnd, kdf, enc, wire, dec, tmp, rd>>

HashNext ==
  \/ WriteCall
  \/ ReadCall

HashSpec == HashInit /\ [][HashNext]_vars

\* C13: a Write on the hashReadWriter succeeds and feeds the hash if and only
\* if no Read was called before it; a Write after the first Read returns 0 and
\* ErrWriteAfterRead and leaves the digest as it is; once a Read was called the
\* hashReadWriter stays sealed.
C13_WriteAfterRead ==
  /\ (out.reads > 0 <=> es.done)
  /\ es.written = out.fed
  /\ (es.done => es.checksum = Sum(MacId(macs, enc.hmacKey, out.fed)))
  /\ (out.op = "Write" =>
        IF out.reads = 0
        THEN out.err = NoErr /\ out.n = out.arg
        ELSE ErrorsIs(out.err, "ErrWriteAfterRead") /\ out.n = 0)

\* a Write of two bytes was refused after a Read that followed a Write
C13_Witness ==
  /\ out.op = "Write" /\ out.arg = 2
  /\ out.reads > 0 /\ out.fed # <<>>
  /\ ErrorsIs(out.err, "ErrWriteAfterRead")

\* C14: the first Read finalizes the keyed hash over the bytes of all Writes
\* before it; all Reads together deliver, for any buffer sizes, the hmacSize
\* bytes of this digest once and in order, and every Read after them end of
\* stream.
C14_DigestServedOnce ==
  LET before == Len(out.data) - out.n
  IN /\ Len(out.data) <= hmacSize
     /\ es.sumPos = Len(out.data)
     /\ (es.done =>
           /\ Len(es.checksum) = hmacSize
           /\ es.checksum = Sum(MacId(macs, enc.hmacKey, out.fed))
           /\ out.data = Take(es.checksum, Len(out.data)))
     /\ (out.op = "Read" =>
           IF before >= hmacSize
           THEN out.err = EOF /\ out.n = 0
           ELSE out.err = NoErr /\ out.n = Min(out.arg, hmacSize - before))

\* the digest of written bytes was delivered by more than one Read, and a
\* further Read has reported the end
C14_Witness ==
  /\ out.op = "Read" /\ out.err = EOF
  /\ out.reads >= 3 /\ out.fed # <<>>
  /\ out.data = es.checksum /\ Len(out.data) = hmacSize

\* ------------------------------------------------------------------------
\* The stream NewEncrypterWithSettings returns
Encrypting == pc \in {"encReading", "encDone"}

\* the source enciphered from its start: the body of the output
Body == XORKeyStream(enc.seed, 0, inp.plain)

\* C15: the reader encrypt returns yields the header, then a body of exactly
\* as many bytes as the source has, then hmacSize trailer bytes, then io.EOF:
\* Len(header) + Len(plain) + hmacSize bytes in all.
C15_HeaderBodyTrailer ==
  Encrypting =>
    LET plainEnd == Len(enc.header) + Len(inp.plain)
    IN /\ Len(enc.header) = HeaderLen
       /\ Take(out.data, plainEnd) = Take(enc.header \o Body, Len(out.data))
       /\ Len(out.data) <= plainEnd + hmacSize
       /\ (Len(out.data) > plainEnd =>
             Drop(out.data, plainEnd) = Take(es.checksum, Len(out.data) - plainEnd))
       /\ ((pc = "encDone" /\ ~inp.srcFails) =>
             /\ out.err = EOF
             /\ Len(es.checksum) = hmacSize
             /\ out.data = enc.header \o Body \o es.checksum
             /\ Len(out.data) = Len(enc.header) + Len(inp.plain) + hmacSize)

\* the output of a source longer than a chunk was read to its end
C15_Witness ==
  /\ pc = "encDone" /\ out.err = EOF
  /\ Len(inp.plain) > chunkSize - hmacSize
  /\ Len(out.data) = HeaderLen + Len(inp.plain) + hmacSize

\* C16: every header and body byte is written to the hashReadWriter, in the
\* order of the output, by the time the consumer gets it; the hashReadWriter
\* is first read only after the source reported io.EOF, so the trailer is the
\* keyed hash of the header followed by the body as emitted.
C16_TeeBeforeSeal ==
  Encrypting =>
    /\ (~es.done => es.written = out.data /\ es.checksum = <<>>)
    /\ es.written = Take(enc.header \o Body, Len(es.written))
    /\ (es.done =>
          /\ es.inner = 2
          /\ es.srcPos = Len(inp.plain)
          /\ es.written = enc.header \o Body
          /\ es.checksum = Sum(MacId(macs, enc.hmacKey, enc.header \o Body))
          /\ Take(out.data, Len(es.written)) = es.written)

\* the hashReadWriter was sealed after a body was written to it whole, and served
\* the trailer
C16_Witness ==
  /\ pc = "encDone" /\ es.done
  /\ Len(inp.plain) > 0
  /\ es.srcPos = Len(inp.plain)
  /\ out.data = es.written \o es.checksum

\* readParameters has returned settings, salt and IV as the header
HeaderRead == Decrypting /\ dec.header # <<>>

defaultArgon2Treads == 4

\* defaultArgon2Time of the package of Argon2Settings
defaultArgon2TimeSettings == 1

\* the largest field value used: the model's integers end at 2^31 - 1, below the
\* end of uint32
MaxField == 2147483647

NewArgon2SettingsWithSettings(time, memory, threads) ==
  [Time |-> time, Memory |-> memory, Threads |-> threads]

NewArgon2Settings ==
  NewArgon2SettingsWithSettings(defaultArgon2TimeSettings, defaultArgon2Memory,
                                defaultArgon2Treads)

\* (faulty variant) Time is written as a value of 16 bits
Encode_ShortTime(a) ==
  [bytes |-> PutUint32(a.Memory) \o <<a.Threads>> \o PutUint32(a.Time % 65536),
   err |-> NoErr]

\* Argon2Settings.Encode: binary.Write of Memory, Threads and Time into a
\* bytes.Buffer, none of which can fail
Encode(a) ==
  [bytes |-> PutUint32(a.Memory) \o <<a.Threads>> \o PutUint32(a.Time), err |-> NoErr]

\* binary.Read(reader, binary.LittleEndian, &field) of a field of n bytes
BinaryRead(b, pos, n) == ReadFull([NoWire EXCEPT !.input = b], pos, n)

\* (faulty variant) a missing Time is not an error
DeserializeSettings_TimeOptional(b) ==
  LET m == BinaryRead(b, 0, 4)
      t == BinaryRead(b, m.pos, 1)
      i == BinaryRead(b, t.pos, 4)
  IN IF m.err # NoErr \/ t.err # NoErr
     THEN [settings |-> NewArgon2SettingsWithSettings(0, 0, 0),
           err |-> Wrap("failed to binary decode Argon2 memory setting", m.err)]
     ELSE [settings |-> NewArgon2SettingsWithSettings(
                          IF i.err = NoErr THEN Uint32(i.data) ELSE 0,
                          Uint32(m.data), t.data[1]),
           err |-> NoErr]

\* DeserializeSettings(b): [settings, err]; the fields read before a failure stay set
DeserializeSettings(b) ==
  LET m == BinaryRead(b, 0, 4)
      t == BinaryRead(b, m.pos, 1)
      i == BinaryRead(b, t.pos, 4)
  IN IF m.err # NoErr
     THEN [settings |-> NewArgon2SettingsWithSettings(0, 0, 0),
           err |-> Wrap("failed to binary decode Argon2 memory setting", m.err)]
     ELSE IF t.err # NoErr
     THEN [settings |-> NewArgon2SettingsWithSettings(0, Uint32(m.data), 0),
           err |-> Wrap("failed to binary decode Argon2 threads setting", t.err)]
     ELSE IF i.err # NoErr
     THEN [settings |-> NewArgon2SettingsWithSettings(0, Uint32(m.data), t.data[1]),
           err |-> Wrap("failed to binary decode Argon2 time setting", i.err)]
     ELSE [settings |-> NewArgon2SettingsWithSettings(Uint32(i.data), Uint32(m.data),
                                                      t.data[1]),
           err |-> NoErr]

\* the settings and the byte slices the codec is applied to
CodecSettings ==
  {NewArgon2SettingsWithSettings(t, m, th) :
     t \in {0, 1, 3, 5678, MaxField}, m \in {0, 1234, defaultArgon2Memory, MaxField},
     th \in {0, defaultArgon2Treads, 5, 255}}

\* the encoding of the default settings, as the tests spell it
DefaultBytes == <<0, 0, 1, 0, 4, 1, 0, 0, 0>>

CodecInputs ==
  SeqsUpTo({0, 127}, MaxInput)
    \cup {Take(b, n) : b \in {DefaultBytes \o <<1, 2>>,
                              <<255, 255, 255, 127, 255, 255, 255, 255, 127, 3, 4>>},
                      n \in 0..MaxInput}

NoResult == [op |-> "none", bytes |-> <<>>, settings |-> NewArgon2Settings, err |-> NoErr]

CodecInit ==
  /\ pc = "codec"
  /\ \E b \in CodecInputs, s \in CodecSettings :
       /\ b = <<>> \/ s = NewArgon2Settings
       /\ inp = [bytes |-> b, settings |-> s, pass |-> Password1, failOnRead |-> 2]
  /\ rnd = 0
  /\ kdf = <<>>
  /\ enc = NoEnc
  /\ es = NewStream
  /\ out = NoResult
  /\ macs = <<>>
  /\ wire = NoWire
  /\ dec = NoDec
  /\ tmp = NoTemp
  /\ rd = NoRead

CodecStep(result) ==
  /\ pc = "codec"
  /\ out' = result
  /\ UNCHANGED <<pc, inp, rnd, kdf, enc, es, macs, wire, dec, tmp, rd>>

\* settings.Encode()
EncodeCall ==
  /\ out.op = "none"
  /\ LET e == Encode(inp.settings)
     IN CodecStep([op |-> "Encode", bytes |-> e.bytes, settings |-> inp.settings,
                   err |-> e.err])

\* DeserializeSettings(b)
DeserializeCall ==
  /\ out.op = "none"
  /\ LET d == DeserializeSettings(inp.bytes)
     IN CodecStep([op |-> "DeserializeSettings", bytes |-> inp.bytes,
                   settings |-> d.settings, err |-> d.err])

\* DeserializeSettings of what Encode returned
DeserializeEncoded ==
  /\ out.op = "Encode" /\ out.err = NoErr
  /\ LET d == DeserializeSettings(out.bytes)
     IN CodecStep([op |-> "Encode;DeserializeSettings", bytes |-> out.bytes,
                   settings |-> d.settings, err |-> d.err])

\* Encode of what DeserializeSettings returned
EncodeDeserialized ==
  /\ out.op = "DeserializeSettings" /\ out.err = NoErr
  /\ LET e == Encode(out.settings)
     IN CodecStep([op |-> "DeserializeSettings;Encode", bytes |-> e.bytes,
                   settings |-> out.settings, err |-> e.err])

\* NewEncrypter(r, pass): the header it hands to the returned reader
EncrypterHeader ==
  /\ out.op = "none"
  /\ LET r == EncrypterWithSettings(inp.pass, defaultArgon2Memory, defaultArgon2Time,
                                    defaultArgon2Threads, inp.failOnRead, rnd)
     IN CodecStep([op |-> "NewEncrypter", bytes |-> r.enc.header,
                   settings |-> inp.settings, err |-> r.enc.err])

CodecNext ==
  \/ EncodeCall
  \/ DeserializeCall
  \/ DeserializeEncoded
  \/ EncodeDeserialized
  \/ EncrypterHeader

CodecSpec == CodecInit /\ [][CodecNext]_vars

\* the length of the encoding: Memory (4 bytes), Threads (1), Time (4)
EncodedLen == 9

C19_DecodeNeedsNineBytes ==
  out.op = "DeserializeSettings" =>
    /\ (out.err # NoErr <=> Len(inp.bytes) < EncodedLen)
    /\ (Len(inp.bytes) >= EncodedLen =>
          /\ out.settings = DeserializeSettings(Take(inp.bytes, EncodedLen)).settings
          /\ out.settings.Memory = Uint32(SubSeq(inp.bytes, 1, 4))
          /\ out.settings.Threads = inp.bytes[5]
          /\ out.settings.Time = Uint32(SubSeq(inp.bytes, 6, 9)))
    /\ (out.err # NoErr =>
          ErrorsIs(out.err, "EOF") \/ ErrorsIs(out.err, "ErrUnexpectedEOF"))

\* an input that ends inside Time was refused
C19_Witness ==
  /\ out.op = "DeserializeSettings"
  /\ Len(inp.bytes) = EncodedLen - 1
  /\ out.err # NoErr
  /\ out.err.ctx = <<"failed to binary decode Argon2 time setting">>

\* byte i (from 0, the least significant) of v
ByteOf(v, i) == (v \div Pow2(8 * i)) % 256

LittleEndian(v) == <<ByteOf(v, 0), ByteOf(v, 1), ByteOf(v, 2), ByteOf(v, 3)>>

RandomFailed == pc = "encFailed" /\ ErrorsIs(enc.err, "ErrRandom")

\* C21: a failure of rand.Reader at the salt and one at the IV give errors
\* with different labels, each wrapping the error of rand.Reader; in both cases
\* no reader is returned and no byte of the source was read.
C21_RandomStageLabels ==
  RandomFailed =>
    /\ enc.state = "error"
    /\ enc.err # Err("ErrRandom")
    /\ enc.err.ctx = IF inp.failOnRead = 0 THEN <<"failed to generate random salt">>
                     ELSE <<"failed to generate random iv">>
    /\ inp.failOnRead \in {0, 1}
    /\ enc.header = <<>>
    /\ es = NewStream
    /\ out.data = <<>>

\* rand.Reader failed at the IV, after the salt was drawn
C21_Witness ==
  /\ RandomFailed
  /\ inp.failOnRead = 1 /\ rnd = 2
  /\ enc.err.ctx = <<"failed to generate random iv">>

\* the reader of NewDecrypter ends after Len(wire.input) bytes without failing
EndsAfter == Decrypting /\ wire.fault = "none" /\ Len(wire.pass) > 0

\* the label of the stage of readParameters that failed, "" if none did
StageOf(e) ==
  IF Len(e.ctx) >= 2 /\ e.ctx[1] = "failed to read encryption parameters"
  THEN e.ctx[2] ELSE ""

StageLabels == {"failed to read Argon2 settings", "failed to read salt", "failed to read IV"}

AfterHeader == Drop(wire.input, Len(dec.header))

\* C23: when the header was read whole and nothing fails in reader or file,
\* decrypt fails with ErrMissingData if and only if fewer than hmacSize bytes
\* follow the header; with hmacSize bytes or more it ends with a stream or with
\* ErrFailedAuthentication.
C23_MissingDataIffShort ==
  (HeaderRead /\ wire.fault = "none" /\ Finished) =>
    /\ pc # "decAborted"
    /\ (MissingData <=> Len(AfterHeader) < hmacSize)
    /\ (Len(AfterHeader) >= hmacSize => Returned \/ AuthenticationFailed)

\* hmacSize - 1 bytes followed the header
C23_Witness ==
  /\ HeaderRead /\ wire.fault = "none"
  /\ Len(AfterHeader) = hmacSize - 1
  /\ MissingData

\* ------------------------------------------------------------------------
\* A plaintext source that fails
SourceError == Err("ErrSource")

\* the output of an encrypt whose source fails is being read
SourceFailing == Encrypting /\ inp.srcFails

\* C30: when the plaintext source reports an error that is not io.EOF, the
\* consumer of the encrypt output gets that error after the header and the body
\* bytes enciphered so far, and no trailer: the hashReadWriter is not read, so
\* it is not sealed and no tag is computed.  In any run the hashReadWriter is
\* sealed, and a byte beyond header and body produced, only after the source
\* has reported io.EOF.
C30_SourceErrorNoTrailer ==
  /\ SourceFailing =>
       /\ ~es.done /\ es.checksum = <<>> /\ es.sumPos = 0 /\ es.outer = 0
       /\ macs = <<>>
       /\ out.data = Take(enc.header \o Body, Len(out.data))
       /\ Len(out.data) <= Len(enc.header) + Min(inp.srcErrAt, Len(inp.plain))
       /\ (pc = "encDone" =>
             /\ out.err = SourceError
             /\ out.data = Take(enc.header \o Body, Len(enc.header) + Min(inp.srcErrAt, Len(inp.plain))))
  /\ Encrypting =>
       ((es.done \/ Len(out.data) > Len(enc.header) + Len(inp.plain)) =>
          ~inp.srcFails /\ es.inner = 2 /\ es.srcPos = Len(inp.plain))

\* the source failed after a byte, and the consumer got the header, the
\* enciphered byte and the error
C30_Witness ==
  /\ pc = "encDone" /\ inp.srcFails /\ inp.srcErrAt = 1
  /\ out.err = SourceError
  /\ Len(out.data) = HeaderLen + 1

\* ------------------------------------------------------------------------
\* Failures of the reader and of the temporary file
IOErrors == {"ErrReader", "ErrWrite", "ErrSeek", "ErrCreateTemp", "EOF", "ErrUnexpectedEOF"}

\* NewDecrypter failed with an error of the reader or of the temporary file
IOFailed == Failed /\ dec.err.kind \in IOErrors

IOStageLabels ==
  {"failed to read encryption parameters", "failed to create temporary file",
   "failed to read bytes from reader", "failed to rest of buffered bytes",
   "failed to seek to start of file"}

\* C29: every failure of NewDecrypter that an error of the reader or of the
\* temporary file causes is returned under a label naming its stage, the
\* underlying error still recognisable by errors.Is.
C29_IOErrorsLabelled ==
  IOFailed =>
    /\ Len(dec.err.ctx) >= 1
    /\ dec.err.ctx[1] \in IOStageLabels
    /\ dec.err # Err(dec.err.kind)

\* ------------------------------------------------------------------------
\* The loop of NewDecrypter against the stream split in one piece
\* the bytes of the stream that precede its last hmacSize bytes
KeepLen == IF Len(AfterHeader) >= hmacSize THEN Len(AfterHeader) - hmacSize ELSE 0

\* the loop was left with break: the trailer was taken
LoopEnded ==
  pc \in {"decAuth", "decSeek", "decReturned", "closed"} \/ AuthenticationFailed

\* C26: for a stream of L >= hmacSize bytes after the header, from a reader that
\* does not fail, however the reader divides the bytes into Reads (short Reads,
\* io.EOF together with the last bytes or on its own), the loop never reports
\* missing data and ends with the temporary file holding S[0 .. L-hmacSize) and
\* checksum holding S[L-hmacSize .. L): the stream split hmacSize bytes from its
\* end.  L = chunkSize and the multiples of chunkSize - hmacSize are among the
\* lengths.
C26_LoopIsOneShotSplit ==
  (HeaderRead /\ wire.fault = "none" /\ Len(AfterHeader) >= hmacSize) =>
    /\ ~MissingData
    /\ (Finished => LoopEnded)
    /\ (LoopEnded =>
          /\ tmp.content = Take(AfterHeader, KeepLen)
          /\ dec.checksum = Drop(AfterHeader, KeepLen)
          /\ dec.pos = Len(wire.input))

\* a stream of exactly chunkSize bytes after the header, read in Reads shorter
\* than a trailer with io.EOF coming with the last of them, was split
C26_Witness ==
  /\ pc = "decAuth" /\ wire.fault = "none"
  /\ Len(AfterHeader) = chunkSize
  /\ wire.step = hmacSize - 1 /\ wire.eofWithData
  /\ Len(tmp.content) = chunkSize - hmacSize
  /\ dec.checksum = Drop(AfterHeader, chunkSize - hmacSize)

IsPrefix(s, t) == Len(s) <= Len(t) /\ s = Take(t, Len(s))

\* between two iterations of the loop, or after it
BetweenIterations == pc \in {"decLoop", "decAuth", "decSeek", "decReturned", "closed"}

StreamHeader ==
  Serialize(NewSettings(8, 1, 1, saltSize, aesKeySize + hmacSize))
    \o RandBytes(0, saltSize) \o RandBytes(1, blockSize)

\* the numbers of bytes after the header: around the trailer, around one chunk
\* and around two
StreamLens ==
  {0, hmacSize - 1, hmacSize, chunkSize - hmacSize, chunkSize - 1, chunkSize,
   chunkSize + 1, 2 * chunkSize - hmacSize, 2 * chunkSize - hmacSize + 1}

Streams ==
  {StreamHeader \o [i \in 1..n |-> PatternByte(i)] : n \in StreamLens}
    \cup {Take(StreamHeader, HeaderLen - 1)}

\* the reader ends with io.EOF, or fails somewhere, or the file cannot be written
StreamFaults(c) ==
  {[NoWire EXCEPT !.input = c, !.pass = Password1]}
    \cup {[NoWire EXCEPT !.input = c, !.pass = Password1, !.fault = "reader", !.errAt = p] :
            p \in {HeaderLen, HeaderLen + chunkSize, Len(c)}}
    \cup {[NoWire EXCEPT !.input = c, !.pass = Password1, !.fault = "write"]}

StreamInit ==
  /\ pc = "decrypt"
  /\ inp = [plain |-> <<>>, pass |-> Password1, failOnRead |-> 2, via |-> "NewDecrypter",
            memory |-> 8, time |-> 1, threads |-> 1, srcFails |-> FALSE, srcErrAt |-> 0]
  /\ rnd = 0
  /\ kdf = <<>>
  /\ enc = NoEnc
  /\ es = NewStream
  /\ out = [data |-> <<>>, err |-> NoErr]
  /\ macs = <<>>
  /\ \E c \in Streams : \E f \in StreamFaults(c) : wire \in Divided(f)
  /\ dec = NoDec
  /\ tmp = NoTemp
  /\ rd = NoRead

StreamNext ==
  \/ DecryptStart
  \/ CreateTemp
  \/ Loop
  \/ Authenticate

\* NewDecrypter runs on: a call that can take its next step takes it
LoopSpec ==
  /\ StreamInit
  /\ [][StreamNext]_vars
  /\ WF_vars(DecryptStart) /\ WF_vars(CreateTemp) /\ WF_vars(Loop) /\ WF_vars(Authenticate)

\* at the head of an iteration: what was consumed is a whole number of steps of
\* chunkSize - hmacSize bytes, and after the first iteration hmacSize bytes of
\* the last chunk are still buffered
LoopVariant ==
  pc = "decLoop" =>
    /\ chunkSize > hmacSize
    /\ Len(tmp.content) % (chunkSize - hmacSize) = 0
    /\ Len(dec.buffer) = (IF Len(tmp.content) = 0 THEN 0 ELSE hmacSize)
    /\ dec.pos = Len(dec.header) + Len(tmp.content) + Len(dec.buffer)
    /\ dec.pos <= Len(wire.input)
    /\ Len(tmp.content) + hmacSize <= Len(AfterHeader) \/ Len(tmp.content) = 0

\* an iteration that stays in the loop has consumed chunkSize - hmacSize bytes; an
\* iteration whose Peek got less than a chunk leaves the loop
LoopStep ==
  pc = "decLoop" =>
    /\ pc' = "decLoop" => Len(tmp'.content) = Len(tmp.content) + chunkSize - hmacSize
    /\ Len(Peek(wire, dec.buffer, dec.pos, dec.rerr).buffer) < chunkSize => pc' # "decLoop"

\* C28: chunkSize exceeds hmacSize, and the loop of NewDecrypter terminates on
\* every stream whose reader ends with io.EOF or an error: each iteration on a
\* full chunk consumes exactly chunkSize - hmacSize > 0 bytes and leaves hmacSize
\* bytes buffered, an iteration on less than a chunk leaves the loop, and what
\* is consumed never exceeds the stream, which bounds the number of iterations.
C28_LoopTerminates ==
  /\ []LoopVariant
  /\ [][LoopStep]_vars
  /\ (pc = "decLoop" ~> pc # "decLoop")

\* the loop is at the head of its second iteration, one full chunk consumed
C28_Witness ==
  /\ pc = "decLoop"
  /\ Len(tmp.content) = chunkSize - hmacSize
  /\ Len(dec.buffer) = hmacSize
  /\ Len(AfterHeader) >= 2 * chunkSize - hmacSize

\* ------------------------------------------------------------------------
\* The session codec: Codec.Encode and Codec.Decode around encrypt and decrypt
\* (faulty variant) the values are left out of what is encoded
Aux_NoValues(deadline, values) == [Deadline |-> deadline, Values |-> {}]

\* aux := &struct{ Deadline time.Time; Values map[string]interface{} }{...}
Aux(deadline, values) == [Deadline |-> deadline, Values |-> values]

\* a time.Time is its wall clock reading and, from time.Now, a monotonic one; a
\* values map is the set of its <<key, value>> pairs
Deadlines == {[wall |-> 9, mono |-> 5], [wall |-> 200, mono |-> 0]}

ValueMaps == {{}, {<<1, 7>>}, {<<1, 7>>, <<2, 0>>}}

\* the orders in which the entries of a map may be iterated
Orders(m) ==
  {o \in [1..Cardinality(m) -> m] : \A e \in m : \E i \in 1..Cardinality(m) : o[i] = e}

\* gob.NewEncoder(buffer).Encode(aux): the wall clock reading (the monotonic one
\* is not encoded), the number of entries, and the entries as they are iterated
GobEncode(aux, order) ==
  <<aux.Deadline.wall, Len(order)>>
    \o [i \in 1..2 * Len(order) |-> order[(i + 1) \div 2][2 - (i % 2)]]

\* gob.NewDecoder(decrypter).Decode(&aux)
GobDecode(b) ==
  IF Len(b) < 2 \/ Len(b) # 2 + 2 * b[2]
  THEN [NoSession EXCEPT !.err = Err("ErrGob")]
  ELSE [err |-> NoErr, Deadline |-> [wall |-> b[1], mono |-> 0],
        Values |-> {<<b[2 * i + 1], b[2 * i + 2]>> : i \in 1..b[2]}]

\* t.Equal(u): the same instant, whatever the monotonic reading
TimeEqual(t, u) == t.wall = u.wall

\* Codec.Encode has gob-encoded the session into the buffer it encrypts from
SessionInit ==
  /\ pc = "encrypt"
  /\ \E deadline \in Deadlines, values \in ValueMaps, pass \in {<<>>, Password1} :
       \E order \in Orders(Aux(deadline, values).Values) :
         inp = [plain |-> GobEncode(Aux(deadline, values), order), pass |-> pass,
                failOnRead |-> 2, via |-> "NewEncrypter",
                memory |-> defaultArgon2Memory, time |-> defaultArgon2Time,
                threads |-> defaultArgon2Threads, srcFails |-> FALSE, srcErrAt |-> 0,
                session |-> [Deadline |-> deadline, Values |-> values]]
  /\ rnd = 0
  /\ kdf = <<>>
  /\ enc = NoEnc
  /\ es = NewStream
  /\ out = [data |-> <<>>, err |-> NoErr]
  /\ macs = <<>>
  /\ wire = NoWire
  /\ dec = NoDec
  /\ tmp = NoTemp
  /\ rd = NoRead

\* Codec.Encode around a failed NewEncrypter
CodecEncodeFails ==
  /\ pc = "encFailed"
  /\ rd' = [rd EXCEPT !.codecErr = Wrap("failed to create encrypter", enc.err)]
  /\ pc' = "codecEncodeFailed"
  /\ UNCHANGED <<inp, rnd, kdf, enc, es, out, macs, wire, dec, tmp>>

\* Codec.Decode after NewDecrypter returned a stream and the gob decoder has
\* read it to its end
CodecDecodeReturns ==
  /\ pc = "decReturned"
  /\ rd.err = EOF
  /\ LET aux == GobDecode(rd.data)
     IN rd' = [rd EXCEPT !.decoded = aux,
                         !.codecErr = IF aux.err = NoErr THEN NoErr
                                      ELSE Wrap("failed to decode session data", aux.err)]
  /\ pc' = "codecReturned"
  /\ UNCHANGED <<inp, rnd, kdf, enc, es, out, macs, wire, dec, tmp>>

SessionNext ==
  \/ NewEncrypter
  \/ CodecEncodeFails
  \/ EncRead
  \/ Deliver
  \/ OtherPassword
  \/ DecryptStart
  \/ CreateTemp
  \/ Loop
  \/ Authenticate
  \/ SeekAndReturn
  \/ DecRead
  \/ CodecDecodeFails
  \/ CodecDecodeReturns

SessionSpec == SessionInit /\ [][SessionNext]_vars

\* C25: Codec.Decode of what Codec.Encode made of a deadline and a values map,
\* with the same non-empty password, fails at no stage and returns a deadline
\* that is the same instant and a map with the same entries; Codec.Encode with
\* an empty password fails with ErrPassPhraseEmpty, under the label of its stage.
C25_SessionRoundTrip ==
  /\ (Len(inp.pass) > 0 /\ wire.tamper = "none") =>
       /\ pc \notin {"encFailed", "codecEncodeFailed", "decFailed", "codecFailed", "decAborted"}
       /\ (pc = "codecReturned" =>
             /\ rd.decoded.err = NoErr /\ rd.codecErr = NoErr
             /\ TimeEqual(rd.decoded.Deadline, inp.session.Deadline)
             /\ rd.decoded.Values = inp.session.Values)
  /\ (Len(inp.pass) = 0 /\ pc # "encrypt") =>
       /\ pc \in {"encFailed", "codecEncodeFailed"}
       /\ ErrorsIs(enc.err, "ErrPassPhraseEmpty")
       /\ out.data = <<>>
       /\ (pc = "codecEncodeFailed" =>
             rd.codecErr = Wrap("failed to create encrypter", Err("ErrPassPhraseEmpty")))

\* a session of two values and a deadline with a monotonic reading came back
C25_Witness ==
  /\ pc = "codecReturned" /\ wire.tamper = "none"
  /\ Cardinality(inp.session.Values) = 2
  /\ inp.session.Deadline.mono # 0
  /\ rd.decoded.Values = inp.session.Values
  /\ rd.decoded.Deadline.wall = inp.session.Deadline.wall

\* ------------------------------------------------------------------------
\* Operations running at once: one encrypt, its output being read, and the
\* NewDecrypter calls of DecOps, each on a reader of its own.  What they share
\* is rand.Reader, the directory of temporary files and the package variables
\* hashFunc and chunkSize, which no code assigns.  pc, inp, enc, es and out are
\* the encrypt's, as before; wire, dec and rd hold one entry for each
\* NewDecrypter call; tmp is the directory: which name leads to which file,
\* and the files.
DecOps == {1, 2}

\* names os.CreateTemp may draw
Names == {1, 2}

\* the encrypter NewEncrypterWithSettings sets up from reads number k and k + 1
\* of rand.Reader
EncrypterAt(k) == EncrypterWithSettings(Password1, 8, 1, 1, k + 2, k).enc

\* header and body it emits for a plaintext
SealedData(plain, k) ==
  EncrypterAt(k).header \o XORKeyStream(EncrypterAt(k).seed, 0, plain)

\* the plaintext of the concurrent encrypt
ConcPlain == [i \in 1..MaxReads |-> PatternByte(i)]

ShortPlain == <<1, 2, 3>>

ChunkPlain == [i \in 1..chunkSize |-> PatternByte(i + 1)]

\* the tags of the three streams
SealTable ==
  <<[key |-> EncrypterAt(0).hmacKey, data |-> SealedData(ConcPlain, 0)],
    [key |-> EncrypterAt(2).hmacKey, data |-> SealedData(ShortPlain, 2)],
    [key |-> EncrypterAt(4).hmacKey, data |-> SealedData(ChunkPlain, 4)]>>

\* the whole output of an encrypt: header, body and trailer
Sealed(plain, k) ==
  SealedData(plain, k)
    \o Sum(MacId(SealTable, EncrypterAt(k).hmacKey, SealedData(plain, k)))

\* what the encrypt writes when it runs alone
ConcSealed == Sealed(ConcPlain, 0)

\* what the NewDecrypter calls are given: a short and a long ciphertext as
\* written, the short one with its last byte changed, cut below a trailer, and
\* under another password, and the long one with a file that cannot be written
ConcWires ==
  LET short == Sealed(ShortPlain, 2)
      long == Sealed(ChunkPlain, 4)
      w == [NoWire EXCEPT !.pass = Password1]
  IN <<[w EXCEPT !.input = short],
       [w EXCEPT !.input = long, !.step = 1000],
       [w EXCEPT !.input = [short EXCEPT ![Len(short)] = 0], !.tamper = "flip"],
       [w EXCEPT !.input = Take(short, HeaderLen + hmacSize - 1), !.tamper = "cut"],
       [w EXCEPT !.input = short, !.pass = Password2, !.tamper = "password"],
       [w EXCEPT !.input = long, !.fault = "write"]>>

\* one step of a NewDecrypter call on the reader w, from the state st = [dec,
\* tmp, pc]
AloneStep(w, table, st) ==
  IF st.pc = "decrypt"
  THEN [dec |-> Started(w).dec, tmp |-> NoTemp, pc |-> Started(w).pc]
  ELSE IF st.pc = "decTemp"
  THEN TempCreated(w, st.dec, NewTemp)
  ELSE IF st.pc = "decLoop"
  THEN Looped(w, st.dec, st.tmp)
  ELSE IF st.pc = "decAuth"
  THEN [dec |-> Authenticated(table, st.dec, st.tmp).dec,
        tmp |-> Authenticated(table, st.dec, st.tmp).tmp,
        pc |-> Authenticated(table, st.dec, st.tmp).pc]
  ELSE IF st.pc = "decSeek"
  THEN Sought(w, st.dec, st.tmp)
  ELSE st

\* the state of a NewDecrypter call on w that runs alone, after k steps
RECURSIVE Alone(_, _, _)
Alone(w, table, k) ==
  IF k = 0 THEN [dec |-> NoDec, tmp |-> NoTemp, pc |-> "decrypt"]
  ELSE CHOOSE st \in {AloneStep(w, table, prev) : prev \in {Alone(w, table, k - 1)}} : TRUE

\* the keyed hashes the calls compute, numbered ahead, so that the number of
\* a tag does not tell in which order the calls computed theirs: those of the
\* three streams, and that of the short one under the other password
ConcMacs ==
  Append(SealTable,
         [key |-> Started(ConcWires[5]).dec.hmacKey, data |-> SealedData(ShortPlain, 2)])

\* a NewDecrypter call that has not started: its state, where it is, the name
\* and the file os.CreateTemp gave it, and the steps it has taken
NoCall == [d |-> NoDec, pc |-> "decrypt", name |-> 0, handle |-> 0, steps |-> 0]

ConcInit ==
  /\ pc = "encrypt"
  /\ inp = [plain |-> ConcPlain, pass |-> Password1, failOnRead |-> 2,
            via |-> "NewEncrypterWithSettings", memory |-> 8, time |-> 1, threads |-> 1,
            srcFails |-> FALSE, srcErrAt |-> 0]
  /\ rnd = 0
  /\ kdf = <<>>
  /\ enc = NoEnc
  /\ es = NewStream
  /\ out = [data |-> <<>>, err |-> NoErr]
  /\ macs = ConcMacs
  /\ \E i, j \in 1..Len(ConcWires) :
       /\ i <= j
       /\ wire = [o \in DecOps |-> IF o = 1 THEN ConcWires[i] ELSE ConcWires[j]]
  /\ dec = [o \in DecOps |-> NoCall]
  /\ tmp = [dir |-> [n \in Names |-> 0], files |-> <<>>]
  /\ rd = [o \in DecOps |-> NoRead]

\* the file of call o, as the call sees it through its handle
FileOf(o) == IF dec[o].handle = 0 THEN NoTemp ELSE tmp.files[dec[o].handle]

\* the directory after call o made a step that left its file as t: the
\* deferred os.RemoveAll removes whatever the name of the call leads to
DirAfter(o, t) ==
  IF dec[o].name # 0 /\ ~t.exists THEN [tmp.dir EXCEPT ![dec[o].name] = 0] ELSE tmp.dir

\* a step of call o that is not os.CreateTemp, with the result r = [dec, tmp, pc]
ConcStep(o, r) ==
  /\ dec' = [dec EXCEPT ![o] = [@ EXCEPT !.d = r.dec, !.pc = r.pc, !.steps = @ + 1]]
  /\ tmp' = IF dec[o].handle = 0 THEN tmp
            ELSE [dir |-> DirAfter(o, r.tmp),
                  files |-> [tmp.files EXCEPT ![dec[o].handle] = r.tmp]]

ConcStart(o) ==
  /\ dec[o].pc = "decrypt"
  /\ \E r \in {Started(wire[o])} : ConcStep(o, [dec |-> r.dec, tmp |-> NoTemp, pc |-> r.pc])
  /\ UNCHANGED <<pc, inp, rnd, kdf, enc, es, out, macs, wire, rd>>

\* (faulty variant) os.CreateTemp takes a name whether or not a file has it
TempNames_Any(dir) == Names

\* os.CreateTemp opens with O_EXCL and draws another name when one is taken
TempNames(dir) == {n \in Names : dir[n] = 0}

ConcCreateTemp(o) ==
  /\ dec[o].pc = "decTemp"
  /\ IF wire[o].fault = "createTemp"
     THEN \E r \in {TempCreated(wire[o], dec[o].d, NewTemp)} : ConcStep(o, r)
     ELSE \E n \in TempNames(tmp.dir) :
          \E r \in {TempCreated(wire[o], dec[o].d,
                                IF tmp.dir[n] = 0 THEN NewTemp ELSE tmp.files[tmp.dir[n]])} :
            LET h == IF tmp.dir[n] = 0 THEN Len(tmp.files) + 1 ELSE tmp.dir[n]
            IN /\ dec' = [dec EXCEPT ![o] = [d |-> r.dec, pc |-> r.pc, name |-> n,
                                              handle |-> h, steps |-> dec[o].steps + 1]]
               /\ tmp' = [dir |-> [tmp.dir EXCEPT ![n] = IF r.tmp.exists THEN h ELSE 0],
                          files |-> IF tmp.dir[n] = 0 THEN Append(tmp.files, r.tmp)
                                    ELSE [tmp.files EXCEPT ![h] = r.tmp]]
  /\ UNCHANGED <<pc, inp, rnd, kdf, enc, es, out, macs, wire, rd>>

ConcLoop(o) ==
  /\ dec[o].pc = "decLoop"
  /\ \E r \in {Looped(wire[o], dec[o].d, FileOf(o))} : ConcStep(o, r)
  /\ UNCHANGED <<pc, inp, rnd, kdf, enc, es, out, macs, wire, rd>>

ConcAuthenticate(o) ==
  /\ dec[o].pc = "decAuth"
  /\ \E r \in {Authenticated(macs, dec[o].d, FileOf(o))} :
       /\ ConcStep(o, [dec |-> r.dec, tmp |-> r.tmp, pc |-> r.pc])
       /\ macs' = r.macs
  /\ UNCHANGED <<pc, inp, rnd, kdf, enc, es, out, wire, rd>>

ConcSeek(o) ==
  /\ dec[o].pc = "decSeek"
  /\ \E r \in {Sought(wire[o], dec[o].d, FileOf(o))} : ConcStep(o, r)
  /\ UNCHANGED <<pc, inp, rnd, kdf, enc, es, out, macs, wire, rd>>

\* the stream call o returned is read to its end
ConcRead(o) ==
  /\ dec[o].pc = "decReturned"
  /\ rd[o].err = NoErr
  /\ rd' = [rd EXCEPT ![o] = [@ EXCEPT !.data = XORKeyStream(dec[o].d.seed, 0, FileOf(o).content),
                                       !.ctrPos = Len(FileOf(o).content), !.err = EOF]]
  /\ tmp' = [tmp EXCEPT !.files[dec[o].handle].off = Len(FileOf(o).content)]
  /\ UNCHANGED <<pc, inp, rnd, kdf, enc, es, out, macs, wire, dec>>

ConcNext ==
  \/ NewEncrypterWithSettings
  \/ EncRead
  \/ \E o \in DecOps : ConcStart(o)
  \/ \E o \in DecOps : ConcCreateTemp(o)
  \/ \E o \in DecOps : ConcLoop(o)
  \/ \E o \in DecOps : ConcAuthenticate(o)
  \/ \E o \in DecOps : ConcSeek(o)
  \/ \E o \in DecOps : ConcRead(o)

ConcSpec == ConcInit /\ [][ConcNext]_vars

\* the state of call o equals that of the same call running alone, after as
\* many steps
AsAlone(o) ==
  LET a == Alone(wire[o], ConcMacs, dec[o].steps)
      read == rd[o].err = EOF
  IN /\ dec[o].d = a.dec
     /\ dec[o].pc = a.pc
     /\ FileOf(o) = (IF read THEN [a.tmp EXCEPT !.off = Len(a.tmp.content)] ELSE a.tmp)
     /\ (dec[o].handle # 0 <=> a.tmp.created)
     /\ (read => rd[o].data = XORKeyStream(a.dec.seed, 0, a.tmp.content))
     /\ (~read => rd[o] = NoRead)

\* C24: whatever the interleaving of the steps of an encrypt being read and of
\* two NewDecrypter calls, every call has a hasher, a buffer and a temporary
\* file of its own (no two calls hold the same file, nor the same name while
\* both files exist), and state, outcome and bytes of each operation are those
\* of the same operation running alone.
C24_AsIfAlone ==
  (pc \in {"encrypt", "encReading", "encDone"} /\ DOMAIN dec = DecOps) =>
    /\ \A o \in DecOps : AsAlone(o)
    /\ \A o1, o2 \in DecOps :
         (o1 # o2 /\ dec[o1].handle # 0 /\ dec[o2].handle # 0) =>
           /\ dec[o1].handle # dec[o2].handle
           /\ (FileOf(o1).exists /\ FileOf(o2).exists => dec[o1].name # dec[o2].name)
    /\ macs = ConcMacs
    /\ out.data = Take(ConcSealed, Len(out.data))
    /\ (pc = "encDone" => out.err = EOF /\ out.data = ConcSealed)

\* both calls were in their loops at once, each with a file of its own, while the
\* encrypt was being read; one of them has consumed a chunk
C24_Witness ==
  /\ pc = "encReading" /\ Len(out.data) > 0
  /\ DOMAIN dec = DecOps
  /\ dec[1].pc = "decLoop" /\ dec[2].pc = "decLoop"
  /\ dec[1].handle # dec[2].handle
  /\ Len(FileOf(2).content) = chunkSize - hmacSize

\* ------------------------------------------------------------------------
\* The stream encrypt returns, under any consumer
\* how many more Reads a consumer makes after a Read returned an error
MaxAfterError == 2

\* the buffers the consumer reads with: empty, one byte, less than a trailer,
\* more than the whole stream
ConsumerSizes == {0, 1, hmacSize - 1, chunkSize}

ConsumerPlains == {<<>>, <<0>>, <<0, 255>>, [i \in 1..5 |-> PatternByte(i)]}

\* out also counts the bytes asked of the source (asked), the Reads that
\* returned an error (failed), and holds the buffer sizes used so far (sizes)
ConsumerInit ==
  /\ pc = "encrypt"
  /\ \E plain \in ConsumerPlains, failOnRead \in 0..2 :
       \/ inp = [plain |-> plain, pass |-> Password1, failOnRead |-> failOnRead,
                 via |-> "NewEncrypterWithSettings", memory |-> 8, time |-> 1,
                 threads |-> 1, srcFails |-> FALSE, srcErrAt |-> 0]
       \/ /\ failOnRead = 2
          /\ \E at \in SourceErrAts(plain) :
               inp = [plain |-> plain, pass |-> Password1, failOnRead |-> failOnRead,
                      via |-> "NewEncrypterWithSettings", memory |-> 8, time |-> 1,
                      threads |-> 1, srcFails |-> TRUE, srcErrAt |-> at]
  /\ rnd = 0
  /\ kdf = <<>>
  /\ enc = NoEnc
  /\ es = NewStream
  /\ out = [data |-> <<>>, err |-> NoErr, asked |-> 0, failed |-> 0, sizes |-> {}]
  /\ macs = <<>>
  /\ wire = NoWire
  /\ dec = NoDec
  /\ tmp = NoTemp
  /\ rd = NoRead

\* a Read with this state of the readers gets as far as the source: the header
\* was served whole and the tee is still the reader of the outer MultiReader
ReachesSource(e) == e.outer = 0 /\ e.hdrPos >= Len(enc.header)

\* a consumer reads with a buffer of any of the sizes, and goes on reading
\* after errors
ConsumerRead ==
  /\ pc = "encReading"
  /\ out.failed <= MaxAfterError
  /\ \E n \in ConsumerSizes :
       \E r \in {StreamRead(es, macs, n)} :
          /\ es' = r.es
          /\ macs' = r.macs
          /\ out' = [data |-> out.data \o r.data, err |-> r.err,
                     asked |-> out.asked + (IF ReachesSource(es) THEN n ELSE 0),
                     failed |-> out.failed + (IF r.err = NoErr THEN 0 ELSE 1),
                     sizes |-> out.sizes \cup {n}]
  /\ UNCHANGED <<pc, inp, rnd, kdf, enc, wire, dec, tmp, rd>>

ConsumerNext ==
  \/ NewEncrypterWithSettings
  \/ ConsumerRead

ConsumerSpec == ConsumerInit /\ [][ConsumerNext]_vars

\* what the source hands out before it ends or fails
SourceBytes ==
  Take(inp.plain, IF inp.srcFails THEN Min(inp.srcErrAt, Len(inp.plain))
                  ELSE Len(inp.plain))

\* the body bytes the consumer has been handed
BodyDelivered ==
  IF Len(out.data) <= Len(enc.header) THEN 0
  ELSE Min(Len(out.data) - Len(enc.header), Len(SourceBytes))

\* C31: NewEncrypterWithSettings reads no byte of the source; while the header
\* is not yet handed out whole no Read reaches the source; and the bytes
\* consumed from the source are never more than the bytes asked of it by the
\* Reads that came after the header (they are the body bytes handed out).
C31_LazySource ==
  /\ (pc \in {"encrypt", "encFailed"} => es.srcPos = 0 /\ out.asked = 0)
  /\ (Len(out.data) < Len(enc.header) => out.asked = 0)
  /\ (out.asked = 0 => es.srcPos = 0)
  /\ es.srcPos <= out.asked
  /\ es.srcPos = BodyDelivered

\* the source of five bytes was consumed in part, by Reads of one byte after a
\* header read with a buffer far larger than the header
C31_Witness ==
  /\ pc = "encReading"
  /\ Len(inp.plain) = 5
  /\ out.sizes = {1, chunkSize}
  /\ es.srcPos = 2
  /\ out.asked = 2
  /\ Len(out.data) = Len(enc.header) + 2

\* everything the stream hands out, as the inputs and the header determine it
WholeStream ==
  enc.header \o XORKeyStream(enc.seed, 0, SourceBytes)
    \o (IF inp.srcFails THEN <<>>
        ELSE Sum(MacId(<<>>, enc.hmacKey, enc.header \o Body)))

\* C32: whatever buffers the consumer reads with, zero-length ones and Reads
\* repeated after io.EOF or after an error of the source among them, no Read
\* returns ErrWriteAfterRead, the tee is dropped before the hashReadWriter is
\* first read, what was written to the hashReadWriter by then is header and
\* body, and the bytes handed out are those of one and the same stream, whole
\* once io.EOF was returned.
C32_NoWriteAfterRead ==
  pc = "encReading" =>
    /\ ~ErrorsIs(out.err, "ErrWriteAfterRead")
    /\ (es.done => es.outer >= 1 /\ es.inner = 2)
    /\ (es.done => macs = <<[key |-> enc.hmacKey, data |-> enc.header \o Body]>>)
    /\ (es.done => es.written = enc.header \o Body)
    /\ out.data = Take(WholeStream, Len(out.data))
    /\ (out.failed > 0 => out.data = WholeStream)
    /\ (out.failed > 0 => out.err = (IF inp.srcFails THEN SourceError ELSE EOF))

\* the stream was read to io.EOF with buffers of all sizes, an empty one among
\* them, and read again after io.EOF
C32_Witness ==
  /\ pc = "encReading"
  /\ ~inp.srcFails
  /\ Len(inp.plain) = 5
  /\ out.sizes = ConsumerSizes
  /\ out.failed = MaxAfterError + 1
  /\ out.err = EOF
  /\ out.data = WholeStream

\* ------------------------------------------------------------------------
\* the key material a pair of keys was cut from, and the two cuts
KeysOf(aesKey, hmacKey) ==
  [requested |-> hmacKey.km.keyLen, aes |-> <<aesKey.from, aesKey.to>>,
   hmac |-> <<hmacKey.from, hmacKey.to>>]

\* the keys NewDecrypter holds once readParameters has returned them
DecryptKeys == KeysOf(dec.aesKey, dec.hmacKey)

\* C33: the key derivation is asked for exactly aesKeySize + hmacKeySize = 64
\* bytes, by encrypt and by decrypt alike; bytes [0, 32) are the cipher key and
\* bytes [32, 64) the MAC key, so the two keys are the whole of what was derived.
C33_DerivesSixtyFourBytes ==
  /\ enc.state = "stream" =>
       /\ enc.hmacKey.km.keyLen = aesKeySize + hmacKeySize
       /\ enc.hmacKey.from = aesKeySize
       /\ enc.hmacKey.to = enc.hmacKey.km.keyLen
  /\ (Decrypting /\ Untouched /\ dec.hmacKey # NoKey) =>
       /\ DecryptKeys.requested = aesKeySize + hmacKeySize
       /\ DecryptKeys.requested = enc.hmacKey.km.keyLen
       /\ DecryptKeys.aes = <<0, aesKeySize>>
       /\ DecryptKeys.hmac = <<aesKeySize, DecryptKeys.requested>>

\* C34: NewEncrypterWithSettings with a password that is not empty and with
\* time = 0 or threads = 0 returns an error, and never panics.
C34_ExplicitSettingsRefused ==
  (pc # "encrypt" /\ inp.via = "NewEncrypterWithSettings" /\ Len(inp.pass) > 0
     /\ (inp.time = 0 \/ inp.threads = 0)) =>
    /\ enc.state = "error"
    /\ enc.err # NoErr

\* C35: Encode of settings whose memory is 0 and whose threads is 0 returns an
\* error and no bytes (the time being the largest the settings of the model
\* hold, MaxField, in place of 4294967295).
C35_EncodeRejectsInvalid ==
  (out.op = "Encode" /\ inp.settings.Memory = 0 /\ inp.settings.Threads = 0
     /\ inp.settings.Time = MaxField) =>
    /\ out.err # NoErr
    /\ Len(out.bytes) # EncodedLen

\* ------------------------------------------------------------------------
\* what was read from the returned stream is the head of the file, decrypted
\* with the keystream from its start
ReadFromStart ==
  /\ tmp.off = Len(rd.data)
  /\ rd.data = XORKeyStream(dec.seed, 0, Take(tmp.content, Len(rd.data)))

\* C38: from the return of a successful NewDecrypter until Close of the returned
\* stream the temporary file is neither removed nor closed, its content stays
\* what was authenticated, reading starts at its first byte with the keystream
\* at position 0, and no Read finds the file removed.
C38_StoreKeptUntilClose ==
  (pc = "decReturned" /\ dec.stream) =>
    /\ tmp.created
    /\ tmp.exists
    /\ tmp.open
    /\ wire.input = dec.header \o tmp.content \o dec.checksum
    /\ ReadFromStart

\* ------------------------------------------------------------------------
\* NewDecrypter on what an attacker made of an output of encrypt
\* the plaintexts: none, shorter than a trailer, as long as one, a chunk
CutPlains == <<<<>>, ShortPlain, [i \in 1..hmacSize |-> PatternByte(i)], ChunkPlain>>

\* the tags of their streams
CutTable ==
  [i \in 1..Len(CutPlains) |->
     [key |-> EncrypterAt(0).hmacKey, data |-> SealedData(CutPlains[i], 0)]]

\* the outputs of encrypt: header, body and trailer
CutStreams ==
  [i \in 1..Len(CutPlains) |->
     SealedData(CutPlains[i], 0)
       \o Sum(MacId(CutTable, EncrypterAt(0).hmacKey, SealedData(CutPlains[i], 0)))]

\* the bits of the header that are inverted: all but the top bit of each field
\* of 32 bits (Memory, Time, SaltLength, KeyLength), which the integers of the
\* model do not hold
HeaderBits ==
  {pb \in (1..HeaderLen) \X (0..7) : pb[2] = 7 => pb[1] \notin {4, 8, 13, 17}}

\* what an attacker makes of output c: c as it is, every proper prefix of it,
\* and c with one bit of the header inverted
Tampered(c) ==
  LET w == [NoWire EXCEPT !.pass = Password1]
  IN {[w EXCEPT !.input = c]}
       \cup {[w EXCEPT !.input = Take(c, Len(c) - k), !.tamper = "cut", !.cut = k] :
               k \in 1..Len(c)}
       \cup {[w EXCEPT !.input = [c EXCEPT ![pb[1]] = FlipBit(@, pb[2])],
                       !.tamper = "headerbit"] : pb \in HeaderBits}

\* the outputs shorter than a chunk reach NewDecrypter through every kind of
\* reader, the longest through one that fills the buffer at once
TamperedWires ==
  UNION {IF Len(c) < chunkSize THEN UNION {Divided(w) : w \in Tampered(c)}
         ELSE Tampered(c) : c \in {CutStreams[i] : i \in 1..Len(CutPlains)}}

TamperInit ==
  /\ pc = "decrypt"
  /\ inp = [plain |-> <<>>, pass |-> Password1, failOnRead |-> 2, via |-> "NewDecrypter",
            memory |-> 8, time |-> 1, threads |-> 1, srcFails |-> FALSE, srcErrAt |-> 0]
  /\ rnd = 0
  /\ kdf = <<>>
  /\ enc = NoEnc
  /\ es = NewStream
  /\ out = [data |-> <<>>, err |-> NoErr]
  /\ macs = CutTable
  /\ wire \in TamperedWires
  /\ dec = NoDec
  /\ tmp = NoTemp
  /\ rd = NoRead

TamperNext ==
  \/ DecryptStart
  \/ CreateTemp
  \/ Loop
  \/ Authenticate
  \/ SeekAndReturn

TamperSpec == TamperInit /\ [][TamperNext]_vars

\* readParameters met the end of the stream
HeaderCutShort ==
  /\ Failed
  /\ dec.err.kind \in {"EOF", "ErrUnexpectedEOF"}
  /\ dec.err.ctx[1] = "failed to read encryption parameters"

\* C36: of an output of encrypt with any number of trailing bytes removed, from
\* one to all of them, NewDecrypter with the password of the encryption returns
\* no stream: it never gets to the Seek, and it fails at the header when the
\* header is incomplete, with ErrMissingData when less than a trailer follows
\* the header, and with ErrFailedAuthentication otherwise.
C36_TruncationRejected ==
  wire.tamper = "cut" =>
    /\ wire.cut >= 1
    /\ NoStream
    /\ pc \notin {"decSeek", "decReturned", "decAborted"}
    /\ Failed =>
         IF Len(wire.input) < HeaderLen THEN HeaderCutShort
         ELSE IF Len(wire.input) < HeaderLen + hmacSize THEN MissingData
         ELSE AuthenticationFailed

\* a stream of more than a chunk lost its trailer and part of its body, and was
\* refused for its digest
C36_Witness ==
  /\ wire.tamper = "cut"
  /\ wire.cut > hmacSize
  /\ Len(wire.input) > chunkSize
  /\ AuthenticationFailed
  /\ dec.compared

\* the settings at the head of what reaches NewDecrypter
WireSettings == SettingsFromBytes(Take(wire.input, SerializedSettingsLength))

\* C37: of an output of encrypt with one bit of its header (settings, salt or
\* IV) inverted, NewDecrypter with the password of the encryption returns an
\* error and no stream, and does not panic; when it got as far as deriving the
\* keys, the error is ErrFailedAuthentication.
C37_HeaderAuthenticated ==
  wire.tamper = "headerbit" =>
    /\ NoStream
    /\ pc \notin {"decSeek", "decReturned", "decAborted"}
    /\ (Failed /\ dec.hmacKey # NoKey) => AuthenticationFailed

=============================================================================
